---- MODULE Spec2Model ----
(***************************************************************************)
(* The uniform collision grid of SpaceRaylibCpp (src/uniform_grid.cpp) and *)
(* its callers.                                                            *)
(*                                                                         *)
(* Number representation.  The C++ code computes in float.  The model      *)
(* computes exactly, on a lattice of values on which the float operations  *)
(* of the code are exact:                                                  *)
(*   - a length (position, radius, cell size, bound) is an integer count   *)
(*     of 1/LenScale world units, so the literal 0.5f is LenScale \div 2;  *)
(*   - a ray direction component is an integer count of 1/DirScale, so the *)
(*     component 1 (2^-14) lies below the 0.0001f threshold of QueryRay    *)
(*     and the component 2 (2^-13) lies above it;                          *)
(*   - a ray parameter t (tMax, tDelta, currentT, maxDistance) is the      *)
(*     rational num/den counted in units of (DirScale / LenScale), with    *)
(*     den = 0 standing for +infinity.                                     *)
(* A vector is a triple <<x, y, z>>.                                       *)
(***************************************************************************)
EXTENDS Integers, Sequences, FiniteSets, TLC

VARIABLES
    gridMinBounds,  \* UniformGrid::gridMinBounds
    gridMaxBounds,  \* UniformGrid::gridMaxBounds
    gridCellSize,   \* UniformGrid::gridCellSize
    gridDimX,       \* UniformGrid::gridDimX
    gridDimY,       \* UniformGrid::gridDimY
    gridDimZ,       \* UniformGrid::gridDimZ
    totalCells,     \* UniformGrid::totalCells
    gridCells,      \* UniformGrid::gridCells : cell id -> sequence of indices
    instances,      \* the caller's std::vector<Asteroid> (index i is element i+1)
    builtFrom,      \* history: <<the vector BuildInstanced last read>>, <<>> before
    op,             \* the last operation carried out
    arg,            \* its arguments
    result,         \* its return value
    currentScreen,      \* main: GameScreen currentScreen
    mainMenuSelection,  \* main: int mainMenuSelection
    shouldExit,         \* main: bool shouldExit
    gameInitialized,    \* main: bool gameInitialized
    collisionGrid,      \* main: UniformGrid *collisionGrid, "nullptr" or "grid"
    currentScore,       \* score system: static int currentScore
    isBouncing,         \* main: bool isBouncing
    bounceTimer,        \* main: float bounceTimer, in units of BounceTick seconds
    playerPos,          \* the camera position
    particles,          \* particle system: static std::vector<Particle> particles
    nextParticleIndex,  \* particle system: static int nextParticleIndex
    pc,                 \* where main is: "frame", "load", "build" or "done"
    frameCalls          \* history: the grid calls of the last step of main

gridVars == <<gridMinBounds, gridMaxBounds, gridCellSize, gridDimX, gridDimY,
              gridDimZ, totalCells>>
callVars == <<op, arg, result>>
gameVars == <<currentScreen, mainMenuSelection, shouldExit, gameInitialized,
              collisionGrid, currentScore, isBouncing, bounceTimer, playerPos,
              particles, nextParticleIndex, pc, frameCalls>>
vars == <<gridVars, gridCells, instances, builtFrom, callVars, gameVars>>

----------------------------------------------------------------------------
(* Fixed-point scales and the literals of the code *)

LenScale == 2
DirScale == 16384
EpsDen == 10000

\* 1.0f, the cell size that replaces a component <= 0       (uniform_grid.cpp:18)
DefaultCellSize == LenScale
\* 0.5f, the radius that replaces a collisionRadius <= 0   (uniform_grid.cpp:134)
MinRadius == LenScale \div 2

----------------------------------------------------------------------------
(* Arithmetic helpers *)

Abs(a) == IF a < 0 THEN -a ELSE a
Max(a, b) == IF a > b THEN a ELSE b
Min(a, b) == IF a < b THEN a ELSE b

\* floorf(a / b) for b > 0
FloorDiv(a, b) == a \div b
\* ceilf(a / b) for b > 0
CeilDiv(a, b) == -((-a) \div b)

\* The C++ int is 32 bits wide.  A product of two ints that does not fit is
\* undefined behaviour; the multiply instruction of the builds leaves the low
\* 32 bits of the product, which IntMul computes on 16-bit limbs <<high, low>>.
IntMax == 2147483647
LimbBase == 65536
ToLimbs(n) == <<(n \div LimbBase) % LimbBase, n % LimbBase>>
FromLimbs(p) ==
    IF p[1] >= LimbBase \div 2 THEN (p[1] - LimbBase) * LimbBase + p[2]
    ELSE p[1] * LimbBase + p[2]
AddLimbs(p, q) ==
    <<(p[1] + q[1] + ((p[2] + q[2]) \div LimbBase)) % LimbBase,
      (p[2] + q[2]) % LimbBase>>
RECURSIVE MulLimbs(_, _)
MulLimbs(p, b) ==
    IF b = 0 THEN <<0, 0>>
    ELSE CHOOSE r \in { IF b % 2 = 1 THEN AddLimbs(AddLimbs(h, h), p)
                        ELSE AddLimbs(h, h) :
                        h \in { MulLimbs(p, b \div 2) } } : TRUE
\* a * b in int arithmetic, for b >= 0
IntMul(a, b) == FromLimbs(MulLimbs(ToLimbs(a), b))
\* a * b, a and b positive, does not fit the int
IntMulOverflows(a, b) == a > IntMax \div b

Range(s) == {s[k] : k \in 1..Len(s)}

\* How often v occurs in the sequence s
Count(s, v) == Cardinality({k \in 1..Len(s) : s[k] = v})

\* Mutant of SortedSeq: the elements in descending order.
SortedSeqDescending(S) ==
    [k \in 1..Cardinality(S) |->
        CHOOSE x \in S : Cardinality({y \in S : y > x}) = k - 1]

\* The elements of a finite set of integers in ascending order: the order in
\* which a std::set<int> is iterated.
SortedSeq(S) ==
    [k \in 1..Cardinality(S) |->
        CHOOSE x \in S : Cardinality({y \in S : y < x}) = k - 1]

----------------------------------------------------------------------------
(* UniformGrid: constructor and coordinate arithmetic *)

\* The fields the constructor computes from its three arguments.
UniformGridCtor(worldMin, worldMax, cellSize) ==
    LET cs == [k \in 1..3 |-> IF cellSize[k] <= 0 THEN DefaultCellSize
                              ELSE cellSize[k]]
        gridTotalSize == [k \in 1..3 |-> worldMax[k] - worldMin[k]]
        raw == [k \in 1..3 |-> CeilDiv(gridTotalSize[k], cs[k])]
        dim == [k \in 1..3 |-> IF raw[k] <= 0 THEN 1 ELSE raw[k]]
    IN [min |-> worldMin, max |-> worldMax, cell |-> cs,
        dimX |-> dim[1], dimY |-> dim[2], dimZ |-> dim[3],
        total |-> IntMul(IntMul(dim[1], dim[2]), dim[3])]

\* Mutant of GetCellIndices: the clamp to the upper end only.
GetCellIndicesNoLowerClamp(worldPos) ==
    LET relativePos == [k \in 1..3 |-> worldPos[k] - gridMinBounds[k]]
        ix == FloorDiv(relativePos[1], gridCellSize[1])
        iy == FloorDiv(relativePos[2], gridCellSize[2])
        iz == FloorDiv(relativePos[3], gridCellSize[3])
    IN <<Min(ix, gridDimX - 1), Min(iy, gridDimY - 1), Min(iz, gridDimZ - 1)>>

GetCellIndices(worldPos) ==
    LET relativePos == [k \in 1..3 |-> worldPos[k] - gridMinBounds[k]]
        ix == FloorDiv(relativePos[1], gridCellSize[1])
        iy == FloorDiv(relativePos[2], gridCellSize[2])
        iz == FloorDiv(relativePos[3], gridCellSize[3])
    IN <<Max(0, Min(ix, gridDimX - 1)),
         Max(0, Min(iy, gridDimY - 1)),
         Max(0, Min(iz, gridDimZ - 1))>>

\* Mutant of IsValidIndex: the x coordinate 0 is refused.
IsValidIndexRefusesFirstColumn(ix, iy, iz) ==
    /\ ix > 0 /\ ix < gridDimX
    /\ iy >= 0 /\ iy < gridDimY
    /\ iz >= 0 /\ iz < gridDimZ

IsValidIndex(ix, iy, iz) ==
    /\ ix >= 0 /\ ix < gridDimX
    /\ iy >= 0 /\ iy < gridDimY
    /\ iz >= 0 /\ iz < gridDimZ

\* Mutant of Get1DIndex: the z stride is the square of the x dimension.
Get1DIndexSquareStride(ix, iy, iz) == ix + iy * gridDimX + iz * gridDimX * gridDimX

Get1DIndex(ix, iy, iz) == ix + iy * gridDimX + iz * gridDimX * gridDimY

\* gridCells.size()
GridCellsSize(cells) == Cardinality(DOMAIN cells)

----------------------------------------------------------------------------
(* UniformGrid: Clear, Add, BuildInstanced *)

\* Mutant of Clear: the cells keep their contents.
ClearKeepsContents(cells) == cells

\* Clear(): every cell i < totalCells is emptied.
Clear(cells) ==
    [c \in DOMAIN cells |-> IF c < totalCells THEN <<>> ELSE cells[c]]

\* Add(instanceIndex, worldBounds), worldBounds = [min |-> v, max |-> v].
\* The three loops visit every coordinate triple between minIndices and
\* maxIndices once; each visit that passes IsValidIndex and the "safety check"
\* appends instanceIndex to the cell of the triple.
Add(cells, instanceIndex, worldBounds) ==
    LET minIndices == GetCellIndices(worldBounds.min)
        maxIndices == GetCellIndices(worldBounds.max)
        visited == { <<ix, iy, iz>> : ix \in minIndices[1]..maxIndices[1],
                                      iy \in minIndices[2]..maxIndices[2],
                                      iz \in minIndices[3]..maxIndices[3] }
        pushes(cellIndex) ==
            Cardinality({ t \in visited :
                            /\ IsValidIndex(t[1], t[2], t[3])
                            /\ Get1DIndex(t[1], t[2], t[3]) = cellIndex
                            /\ cellIndex >= 0
                            /\ cellIndex < GridCellsSize(cells) })
    IN [c \in DOMAIN cells |->
           cells[c] \o [k \in 1..pushes(c) |-> instanceIndex]]

\* Mutant of WorldBoundsOf: only a negative radius is replaced.
WorldBoundsOfZeroRadiusKept(inst) ==
    LET r == IF inst.collisionRadius < 0 THEN MinRadius ELSE inst.collisionRadius
    IN [min |-> <<inst.position[1] - r, inst.position[2] - r, inst.position[3] - r>>,
        max |-> <<inst.position[1] + r, inst.position[2] + r, inst.position[3] + r>>]

\* Mutant of WorldBoundsOf: the bounds are the position alone.
WorldBoundsOfCentreOnly(inst) ==
    [min |-> inst.position, max |-> inst.position]

\* The bounds BuildInstanced approximates for one instance.
WorldBoundsOf(inst) ==
    LET r == IF inst.collisionRadius <= 0 THEN MinRadius ELSE inst.collisionRadius
    IN [min |-> <<inst.position[1] - r, inst.position[2] - r, inst.position[3] - r>>,
        max |-> <<inst.position[1] + r, inst.position[2] + r, inst.position[3] + r>>]

\* Mutant of BuildLoop: instances of collisionRadius <= 0 are skipped.
RECURSIVE BuildLoopSkipsNonPositiveRadius(_, _, _)
BuildLoopSkipsNonPositiveRadius(cells, insts, i) ==
    IF i > Len(insts) THEN cells
    ELSE IF ~insts[i].isActive \/ insts[i].collisionRadius <= 0
         THEN BuildLoopSkipsNonPositiveRadius(cells, insts, i + 1)
    ELSE CHOOSE r \in { BuildLoopSkipsNonPositiveRadius(next, insts, i + 1) :
                          next \in { Add(cells, i - 1, WorldBoundsOf(insts[i])) } } : TRUE

\* Mutant of BuildLoop: inactive instances are added too.
RECURSIVE BuildLoopAddsInactive(_, _, _)
BuildLoopAddsInactive(cells, insts, i) ==
    IF i > Len(insts) THEN cells
    ELSE CHOOSE r \in { BuildLoopAddsInactive(next, insts, i + 1) :
                          next \in { Add(cells, i - 1, WorldBoundsOf(insts[i])) } } : TRUE

\* The loop of BuildInstanced from element i (1-based) on; element i has index i-1.
\* (A value that a recursive call takes over is bound through a one-element
\* set, so that it is computed once.)
RECURSIVE BuildLoop(_, _, _)
BuildLoop(cells, insts, i) ==
    IF i > Len(insts) THEN cells
    ELSE IF ~insts[i].isActive THEN BuildLoop(cells, insts, i + 1)
    ELSE CHOOSE r \in { BuildLoop(next, insts, i + 1) :
                          next \in { Add(cells, i - 1, WorldBoundsOf(insts[i])) } } : TRUE

\* Mutant of BuildInstanced: the cells are not cleared first.
BuildInstancedWithoutClear(cells, insts) == BuildLoop(cells, insts, 1)

BuildInstanced(cells, insts) ==
    CHOOSE r \in { BuildLoop(cleared, insts, 1) : cleared \in { Clear(cells) } } : TRUE

----------------------------------------------------------------------------
(* UniformGrid: Query *)

\* The contents of the cell (x, y, z) as Query and QueryRay read them: nothing
\* when the linear id fails the "safety check".
CellContents(cells, x, y, z) ==
    LET cellIndex == Get1DIndex(x, y, z)
    IN IF cellIndex >= 0 /\ cellIndex < GridCellsSize(cells)
       THEN Range(cells[cellIndex])
       ELSE {}

Offsets == {-1, 0, 1}

\* Mutant of QueryUnique: the loops start at offset 0.
QueryUniqueFromZero(cells, worldPos) ==
    LET centerIndices == GetCellIndices(worldPos)
    IN UNION {IF IsValidIndex(centerIndices[1] + dx, centerIndices[2] + dy,
                              centerIndices[3] + dz)
              THEN CellContents(cells, centerIndices[1] + dx,
                                centerIndices[2] + dy, centerIndices[3] + dz)
              ELSE {} : dx \in {0, 1}, dy \in {0, 1}, dz \in {0, 1}}

\* uniqueIndices after the three loops of Query over dz, dy, dx.
QueryUnique(cells, worldPos) ==
    LET centerIndices == GetCellIndices(worldPos)
    IN UNION {IF IsValidIndex(centerIndices[1] + dx, centerIndices[2] + dy,
                              centerIndices[3] + dz)
              THEN CellContents(cells, centerIndices[1] + dx,
                                centerIndices[2] + dy, centerIndices[3] + dz)
              ELSE {} : dx \in Offsets, dy \in Offsets, dz \in Offsets}

Query(cells, worldPos) == SortedSeq(QueryUnique(cells, worldPos))

----------------------------------------------------------------------------
(* Ray parameters: exact rationals, den = 0 for +infinity *)

Infinity == [num |-> 1, den |-> 0]
Zero == [num |-> 0, den |-> 1]

\* a / b for b # 0, with the sign carried by the numerator
Quot(a, b) == IF b < 0 THEN [num |-> -a, den |-> -b] ELSE [num |-> a, den |-> b]

\* a < b as IEEE compares: nothing is above +infinity
Less(a, b) ==
    IF a.den = 0 THEN FALSE
    ELSE IF b.den = 0 THEN TRUE
    ELSE a.num * b.den < b.num * a.den

\* a + b
Plus(a, b) ==
    IF a.den = 0 \/ b.den = 0 THEN Infinity
    ELSE IF a.den = b.den THEN [num |-> a.num + b.num, den |-> a.den]
    ELSE [num |-> a.num * b.den + b.num * a.den, den |-> a.den * b.den]

\* Mutant of Distance: the limit is the square of maxDistance.
DistanceSquared(m) == [num |-> m * m, den |-> DirScale]

\* The float maxDistance, a length, as a ray parameter
Distance(m) == [num |-> m, den |-> DirScale]

\* Mutant of NearZeroLength: only the zero vector counts.
NearZeroLengthOnlyZero(v) == v[1] = 0 /\ v[2] = 0 /\ v[3] = 0

\* Vector3LengthSqr(v) < 0.0001f for a direction v
NearZeroLength(v) ==
    v[1] * v[1] + v[2] * v[2] + v[3] * v[3] <= (DirScale * DirScale - 1) \div EpsDen

\* fabsf(d) > 0.0001f for a direction component d
NonNegligible(d) == Abs(d) * EpsDen > DirScale

----------------------------------------------------------------------------
(* UniformGrid: QueryRay *)

\* stepX, stepY, stepZ
StepOf(d) == IF d >= 0 THEN 1 ELSE -1

\* tMax of one axis k at the start cell coordinate i
InitialTMax(ray, k, i) ==
    IF NonNegligible(ray.direction[k])
    THEN LET nextBoundCoord ==
                 IF StepOf(ray.direction[k]) > 0
                 THEN (i + 1) * gridCellSize[k] + gridMinBounds[k]
                 ELSE i * gridCellSize[k] + gridMinBounds[k]
         IN Quot(nextBoundCoord - ray.position[k], ray.direction[k])
    ELSE Infinity

\* tDelta of one axis k
TDelta(ray, k) ==
    IF NonNegligible(ray.direction[k])
    THEN [num |-> gridCellSize[k], den |-> Abs(ray.direction[k])]
    ELSE Infinity

\* Mutant of AdvanceAxis: tMaxX is never compared with tMaxZ.
AdvanceAxisForgetsZ(tMaxX, tMaxY, tMaxZ) ==
    IF Less(tMaxX, tMaxY) THEN 1
    ELSE IF Less(tMaxY, tMaxZ) THEN 2 ELSE 3

\* The axis the loop body advances: 1 = x, 2 = y, 3 = z.
AdvanceAxis(tMaxX, tMaxY, tMaxZ) ==
    IF Less(tMaxX, tMaxY)
    THEN IF Less(tMaxX, tMaxZ) THEN 1 ELSE 3
    ELSE IF Less(tMaxY, tMaxZ) THEN 2 ELSE 3

\* The first half of the loop body: currentT, tMax and the cell coordinate
\* after the advance.  s = [idx, tMax, currentT, unique, steps].
Advance(ray, s) ==
    LET k == AdvanceAxis(s.tMax[1], s.tMax[2], s.tMax[3])
    IN [s EXCEPT !.currentT = s.tMax[k],
                 !.tMax[k] = Plus(s.tMax[k], TDelta(ray, k)),
                 !.idx[k] = s.idx[k] + StepOf(ray.direction[k]),
                 !.steps = s.steps + 1]

\* The second half of the loop body: the newly entered cell is recorded.
Record(cells, n) ==
    [n EXCEPT !.unique = @ \cup CellContents(cells, n.idx[1], n.idx[2], n.idx[3])]

\* Mutant of RayLoop: the traversal goes on outside the grid until the
\* distance ends it.
RECURSIVE RayLoopRunsPastGrid(_, _, _, _)
RayLoopRunsPastGrid(cells, ray, maxDistance, s) ==
    IF ~Less(s.currentT, Distance(maxDistance)) THEN s
    ELSE CHOOSE r \in
        { IF ~Less(n.currentT, Distance(maxDistance)) THEN n
          ELSE IF ~IsValidIndex(n.idx[1], n.idx[2], n.idx[3])
               THEN RayLoopRunsPastGrid(cells, ray, maxDistance, n)
          ELSE RayLoopRunsPastGrid(cells, ray, maxDistance, Record(cells, n)) :
            n \in { Advance(ray, s) } } : TRUE

\* Mutant of RayLoop: the traversal ends only where the grid ends.
RECURSIVE RayLoopIgnoresDistance(_, _, _, _)
RayLoopIgnoresDistance(cells, ray, maxDistance, s) ==
    CHOOSE r \in
        { IF ~IsValidIndex(n.idx[1], n.idx[2], n.idx[3]) THEN n
          ELSE RayLoopIgnoresDistance(cells, ray, maxDistance, Record(cells, n)) :
            n \in { Advance(ray, s) } } : TRUE

\* Mutant of RayLoop: the distance is tested only at the top of the loop, so
\* the cell entered at or beyond maxDistance is still recorded.
RECURSIVE RayLoopChecksDistanceLate(_, _, _, _)
RayLoopChecksDistanceLate(cells, ray, maxDistance, s) ==
    IF ~Less(s.currentT, Distance(maxDistance)) THEN s
    ELSE CHOOSE r \in
        { IF ~IsValidIndex(n.idx[1], n.idx[2], n.idx[3]) THEN n
          ELSE RayLoopChecksDistanceLate(cells, ray, maxDistance, Record(cells, n)) :
            n \in { Advance(ray, s) } } : TRUE

\* Mutant of RayLoop: the loop body breaks only when currentT is greater than
\* maxDistance, so the cell entered at exactly maxDistance is recorded.
RECURSIVE RayLoopRecordsAtMaxDistance(_, _, _, _)
RayLoopRecordsAtMaxDistance(cells, ray, maxDistance, s) ==
    IF ~Less(s.currentT, Distance(maxDistance)) THEN s
    ELSE CHOOSE r \in
        { IF Less(Distance(maxDistance), n.currentT) THEN n
          ELSE IF ~IsValidIndex(n.idx[1], n.idx[2], n.idx[3]) THEN n
          ELSE RayLoopRecordsAtMaxDistance(cells, ray, maxDistance, Record(cells, n)) :
            n \in { Advance(ray, s) } } : TRUE

\* while (currentT < maxDistance) { advance; break or record }
RECURSIVE RayLoop(_, _, _, _)
RayLoop(cells, ray, maxDistance, s) ==
    IF ~Less(s.currentT, Distance(maxDistance)) THEN s
    ELSE CHOOSE r \in
        { IF ~Less(n.currentT, Distance(maxDistance)) THEN n
          ELSE IF ~IsValidIndex(n.idx[1], n.idx[2], n.idx[3]) THEN n
          ELSE RayLoop(cells, ray, maxDistance, Record(cells, n)) :
            n \in { Advance(ray, s) } } : TRUE

\* Mutant of RayStart: the starting cell is not recorded.
RayStartWithoutCell(cells, ray) ==
    LET currentIndices == GetCellIndices(ray.position)
    IN [idx |-> currentIndices,
        tMax |-> <<InitialTMax(ray, 1, currentIndices[1]),
                   InitialTMax(ray, 2, currentIndices[2]),
                   InitialTMax(ray, 3, currentIndices[3])>>,
        currentT |-> Zero,
        unique |-> {},
        steps |-> 0]

\* The state of the traversal before the loop (lines 190-233).
RayStart(cells, ray) ==
    LET currentIndices == GetCellIndices(ray.position)
    IN [idx |-> currentIndices,
        tMax |-> <<InitialTMax(ray, 1, currentIndices[1]),
                   InitialTMax(ray, 2, currentIndices[2]),
                   InitialTMax(ray, 3, currentIndices[3])>>,
        currentT |-> Zero,
        unique |-> IF IsValidIndex(currentIndices[1], currentIndices[2],
                                   currentIndices[3])
                   THEN CellContents(cells, currentIndices[1], currentIndices[2],
                                     currentIndices[3])
                   ELSE {},
        steps |-> 0]

\* QueryRay(ray, maxDistance), ray = [position |-> v, direction |-> v]
QueryRay(cells, ray, maxDistance) ==
    IF NearZeroLength(ray.direction)
    THEN Query(cells, ray.position)
    ELSE CHOOSE r \in
             { SortedSeq(RayLoop(cells, ray, maxDistance, start).unique) :
                 start \in { RayStart(cells, ray) } } : TRUE

----------------------------------------------------------------------------
(* The operations as steps of the state machine *)

Asteroid(position, collisionRadius, isActive) ==
    [position |-> position, collisionRadius |-> collisionRadius,
     isActive |-> isActive]

\* A length given in world units
World(x) == x * LenScale

\* The camera position main starts with                    (part_001:61)
InitialCameraPos == <<0, World(2), World(5)>>

----------------------------------------------------------------------------
(* The particle system (src/particle_system.cpp).  A slot is the record of  *)
(* its isActive and lifeTime; position, velocity and colour are written     *)
(* with them and never read back by the code modelled here.  The lifeTime   *)
(* of an inactive slot is never read before EmitParticles overwrites it, so *)
(* inactive slots are kept at lifeTime 0.                                   *)

\* const int MAX_PARTICLES, the size of the pool (500 in the code)
MAX_PARTICLES == 4

InactiveParticle == [isActive |-> FALSE, lifeTime |-> 0]

\* static std::vector<Particle> particles(MAX_PARTICLES): slot i is element
\* i + 1.
ParticlePoolAtStart == [k \in 1..MAX_PARTICLES |-> InactiveParticle]

\* InitializeParticles(): the pool it leaves
InitializeParticles(pool) == [k \in DOMAIN pool |-> InactiveParticle]

\* UpdateParticles(deltaTime): the pool it leaves
UpdateParticles(pool, deltaTime) ==
    [k \in DOMAIN pool |->
        IF pool[k].isActive
        THEN IF pool[k].lifeTime - deltaTime <= 0 THEN InactiveParticle
             ELSE [isActive |-> TRUE, lifeTime |-> pool[k].lifeTime - deltaTime]
        ELSE pool[k]]

\* Mutant of NextIndex: the index wraps one slot late.
NextIndexWrapsLate(index) ==
    IF index + 1 > MAX_PARTICLES THEN 0 ELSE index + 1

\* nextParticleIndex++; if (nextParticleIndex >= MAX_PARTICLES)
\* nextParticleIndex = 0;
NextIndex(index) ==
    IF index + 1 >= MAX_PARTICLES THEN 0 ELSE index + 1

\* The loop of EmitParticles from iteration i on.  s holds the pool, the next
\* index and, as history, the slots written so far; lifeTimes[i + 1] is the
\* lifetime the random draw of iteration i gives.  A write to a slot outside
\* the pool leaves the pool as it is and is recorded in s.written.
RECURSIVE EmitLoop(_, _, _, _)
EmitLoop(s, i, count, lifeTimes) ==
    IF i >= count THEN s
    ELSE LET pIndex == s.nextParticleIndex
         IN EmitLoop(
               [particles |->
                   IF pIndex + 1 \in DOMAIN s.particles
                   THEN [s.particles EXCEPT
                           ![pIndex + 1] = [isActive |-> TRUE,
                                            lifeTime |-> lifeTimes[i + 1]]]
                   ELSE s.particles,
                nextParticleIndex |-> NextIndex(pIndex),
                written |-> Append(s.written, pIndex)],
               i + 1, count, lifeTimes)

\* EmitParticles(position, count, speed, duration, color)
EmitParticles(pool, index, count, lifeTimes) ==
    EmitLoop([particles |-> pool, nextParticleIndex |-> index, written |-> <<>>],
             0, count, lifeTimes)

\* The variables of main as its initialisation leaves them, main being at p:
\* "frame" at the top of its loop, "none" where the grid is used without main.
MainAt(p) ==
    /\ currentScreen = "MAIN_MENU"
    /\ mainMenuSelection = 0
    /\ shouldExit = FALSE
    /\ gameInitialized = FALSE
    /\ collisionGrid = "nullptr"
    /\ currentScore = 0
    /\ isBouncing = FALSE
    /\ bounceTimer = 0
    /\ playerPos = InitialCameraPos
    /\ particles = ParticlePoolAtStart
    /\ nextParticleIndex = 0
    /\ pc = p
    /\ frameCalls = <<>>

\* The fields new UniformGrid(worldMin, worldMax, cellSize) sets.
ConstructedFields(worldMin, worldMax, cellSize) ==
    LET g == UniformGridCtor(worldMin, worldMax, cellSize)
    IN /\ gridMinBounds = g.min
       /\ gridMaxBounds = g.max
       /\ gridCellSize = g.cell
       /\ gridDimX = g.dimX
       /\ gridDimY = g.dimY
       /\ gridDimZ = g.dimZ
       /\ totalCells = g.total

\* gridCells.resize(totalCells): totalCells empty cells
EmptyCells(n) == [c \in 0..(n - 1) |-> <<>>]

\* new UniformGrid(worldMin, worldMax, cellSize)
Constructed(worldMin, worldMax, cellSize) ==
    /\ ConstructedFields(worldMin, worldMax, cellSize)
    /\ gridCells = EmptyCells(totalCells)

BuildInstancedStep ==
    /\ gridCells' = BuildInstanced(gridCells, instances)
    /\ builtFrom' = <<instances>>
    /\ op' = "BuildInstanced"
    /\ arg' = instances
    /\ result' = <<>>
    /\ UNCHANGED <<gameVars, gridVars, instances>>

ClearStep ==
    /\ gridCells' = Clear(gridCells)
    /\ op' = "Clear"
    /\ arg' = <<>>
    /\ result' = <<>>
    /\ UNCHANGED <<gameVars, gridVars, instances, builtFrom>>

AddStep(instanceIndex, worldBounds) ==
    /\ gridCells' = Add(gridCells, instanceIndex, worldBounds)
    /\ op' = "Add"
    /\ arg' = [instanceIndex |-> instanceIndex, worldBounds |-> worldBounds]
    /\ result' = <<>>
    /\ UNCHANGED <<gameVars, gridVars, instances, builtFrom>>

QueryStep(worldPos) ==
    /\ result' = Query(gridCells, worldPos)
    /\ op' = "Query"
    /\ arg' = worldPos
    /\ UNCHANGED <<gameVars, gridVars, gridCells, instances, builtFrom>>

QueryRayStep(ray, maxDistance) ==
    /\ result' = QueryRay(gridCells, ray, maxDistance)
    /\ op' = "QueryRay"
    /\ arg' = [ray |-> ray, maxDistance |-> maxDistance]
    /\ UNCHANGED <<gameVars, gridVars, gridCells, instances, builtFrom>>

GetCellIndicesStep(worldPos) ==
    /\ result' = GetCellIndices(worldPos)
    /\ op' = "GetCellIndices"
    /\ arg' = worldPos
    /\ UNCHANGED <<gameVars, gridVars, gridCells, instances, builtFrom>>

\* Mutant of SetActiveStep: a deactivated element is taken out of the cells.
SetActiveStepUpdatesGrid(i, active) ==
    /\ instances[i].isActive # active
    /\ instances' = [instances EXCEPT ![i].isActive = active]
    /\ gridCells' = IF active THEN gridCells
                    ELSE [c \in DOMAIN gridCells |->
                            SelectSeq(gridCells[c], LAMBDA x : x # i - 1)]
    /\ op' = "SetActive"
    /\ arg' = <<i - 1, active>>
    /\ result' = <<>>
    /\ UNCHANGED <<gameVars, gridVars, builtFrom>>

\* The caller writes an element's isActive flag.
SetActiveStep(i, active) ==
    /\ instances[i].isActive # active
    /\ instances' = [instances EXCEPT ![i].isActive = active]
    /\ op' = "SetActive"
    /\ arg' = <<i - 1, active>>
    /\ result' = <<>>
    /\ UNCHANGED <<gameVars, gridVars, gridCells, builtFrom>>

----------------------------------------------------------------------------
(* Specification Spec: the build lifecycle.  A grid is constructed, the     *)
(* caller's vector is built into it, flags change, and the grid is queried. *)

MaxObjects == 2

\* new UniformGrid(min, max, cell) of the lifecycle: dimensions (3, 2, 2),
\* a minimum corner off the origin and an extent no multiple of the cell size.
LifecycleGrid ==
    [min |-> <<-2, 0, -1>>, max |-> <<5, 3, 3>>, cell |-> <<3, 2, 2>>]

\* Objects by position and collision radius: inside the grid across two
\* cells, inside with radius 0, below the grid with a negative radius, and
\* above the grid reaching into it.
ObjKinds ==
    { << <<0, 1, 0>>, 2 >>, << <<0, 1, 0>>, 0 >>,
      << <<-4, 1, 2>>, -1 >>, << <<5, 5, 2>>, 2 >> }
Asteroids == { Asteroid(k[1], k[2], a) : k \in ObjKinds, a \in BOOLEAN }

InstanceVectors == UNION { [1..n -> Asteroids] : n \in 0..MaxObjects }

ProbePositions == { <<0, 1, 0>>, <<6, 3, 2>>, <<-4, 1, 2>> }

ProbeRays ==
    { [position |-> p, direction |-> d] :
        p \in { <<0, 1, 0>>, <<6, 3, 2>> },
        d \in { <<-DirScale, -DirScale, 0>>, <<0, 0, 0>> } }
ProbeDistances == { 20 }

Init ==
    /\ Constructed(LifecycleGrid.min, LifecycleGrid.max, LifecycleGrid.cell)
    /\ instances \in InstanceVectors
    /\ builtFrom = <<>>
    /\ op = "UniformGrid"
    /\ arg = <<>>
    /\ result = <<>>
    /\ MainAt("none")

Next ==
    \/ BuildInstancedStep
    \/ \E i \in 1..Len(instances), a \in BOOLEAN : SetActiveStep(i, a)
    \/ \E p \in ProbePositions : QueryStep(p)
    \/ \E ray \in ProbeRays, m \in ProbeDistances : QueryRayStep(ray, m)

Spec == Init /\ [][Next]_vars

----------------------------------------------------------------------------
(* Properties of the build lifecycle *)

\* The coordinate triple of the cell with linear id c.
CellCoords(c) ==
    <<c % gridDimX, (c \div gridDimX) % gridDimY, c \div (gridDimX * gridDimY)>>

\* The radius the build uses for an instance.
RadiusUsed(inst) ==
    IF inst.collisionRadius <= 0 THEN MinRadius ELSE inst.collisionRadius

\* Cell c lies in the inclusive cell box between GetCellIndices(position - r)
\* and GetCellIndices(position + r).
InCellBox(c, inst) ==
    LET r == RadiusUsed(inst)
        lo == GetCellIndices([k \in 1..3 |-> inst.position[k] - r])
        hi == GetCellIndices([k \in 1..3 |-> inst.position[k] + r])
        xyz == CellCoords(c)
    IN \A k \in 1..3 : lo[k] <= xyz[k] /\ xyz[k] <= hi[k]

\* C1: after BuildInstanced, index i occurs in cell c exactly once if object i
\* is active and c lies in the cell box of position -+ r (r the collision
\* radius, 0.5 when that is <= 0), and does not occur in c otherwise.
C1_BuildPlacement ==
    op = "BuildInstanced" =>
        \A c \in DOMAIN gridCells :
            \A i \in 0..(Len(instances) - 1) :
                Count(gridCells[c], i) =
                    IF instances[i + 1].isActive /\ InCellBox(c, instances[i + 1])
                    THEN 1 ELSE 0

\* A build of an active object of radius <= 0 that lands in two cells, next to
\* an inactive object.
C1_Witness ==
    /\ op = "BuildInstanced"
    /\ Len(instances) = 2
    /\ instances[1].isActive
    /\ instances[1].collisionRadius <= 0
    /\ ~instances[2].isActive
    /\ \E c1, c2 \in DOMAIN gridCells :
          c1 # c2 /\ 0 \in Range(gridCells[c1]) /\ 0 \in Range(gridCells[c2])

\* C5: no Query and no QueryRay after a build returns the index of an object
\* that was inactive at that build, also when it was set active since.
C5_InactiveAtBuildNeverReturned ==
    (op \in {"Query", "QueryRay"} /\ builtFrom # <<>>) =>
        \A i \in Range(result) :
            i + 1 \in DOMAIN builtFrom[1] /\ builtFrom[1][i + 1].isActive

\* A query at the position of an object that was inactive at the build and is
\* active now, which returns another object.
C5_Witness ==
    /\ op \in {"Query", "QueryRay"}
    /\ builtFrom # <<>>
    /\ result # <<>>
    /\ \E i \in 1..Len(instances) :
          /\ ~builtFrom[1][i].isActive
          /\ instances[i].isActive
          /\ IF op = "Query" THEN arg = instances[i].position
             ELSE arg.ray.position = instances[i].position

\* The store of a newly constructed grid.
FreshCells == [c \in DOMAIN gridCells |-> <<>>]

\* C6: a second BuildInstanced on the same vector leaves every cell as the
\* first left it, and what the first leaves does not depend on what the store
\* held before.
C6_BuildIdempotent ==
    op = "BuildInstanced" =>
        /\ BuildInstanced(gridCells, instances) = gridCells
        /\ gridCells = BuildInstanced(FreshCells, instances)

\* A build that stored something and skipped an inactive object: the second
\* build of the formula runs over a filled store.
C6_Witness ==
    /\ op = "BuildInstanced"
    /\ \E c \in DOMAIN gridCells : gridCells[c] # <<>>
    /\ \E i \in 1..Len(instances) : ~instances[i].isActive

----------------------------------------------------------------------------
(* Specification SpecStore: Add, Clear and Query on a store of any content *)

MaxCellLen == 2

StoreIndices == { 0, 1 }

StoreBoxes ==
    { [min |-> <<0, 1, 0>>, max |-> <<0, 1, 0>>],
      [min |-> <<1, 2, 1>>, max |-> <<3, 3, 2>>],
      [min |-> <<0, 1, 0>>, max |-> <<2, 2, 1>>],
      [min |-> <<4, 1, 0>>, max |-> <<4, 1, 0>>],
      [min |-> <<8, 1, 0>>, max |-> <<9, 1, 0>>] }

StorePositions ==
    { <<-1, 0, -1>>, <<0, 1, 0>>, <<2, 3, 2>>, <<3, 1, 1>>, <<4, 0, 0>>,
      <<6, 3, 2>>, <<-5, 9, 1>>, <<9, 1, 0>> }

\* The guard that keeps the store finite: every cell has room.
StoreHasRoom == \A c \in DOMAIN gridCells : Len(gridCells[c]) < MaxCellLen

InitStore ==
    /\ Constructed(LifecycleGrid.min, LifecycleGrid.max, LifecycleGrid.cell)
    /\ instances = <<>>
    /\ builtFrom = <<>>
    /\ op = "UniformGrid"
    /\ arg = <<>>
    /\ result = <<>>
    /\ MainAt("none")

NextStore ==
    \/ \E i \in StoreIndices, b \in StoreBoxes : StoreHasRoom /\ AddStep(i, b)
    \/ ClearStep
    \/ \E p \in StorePositions : QueryStep(p)

SpecStore == InitStore /\ [][NextStore]_vars

\* The coordinate triples IsValidIndex accepts.
ValidCells ==
    { <<x, y, z>> : x \in 0..(gridDimX - 1), y \in 0..(gridDimY - 1),
                    z \in 0..(gridDimZ - 1) }

\* Cell a is one of the 27 cells at offsets {-1,0,1}^3 around cell b.
Adjacent(a, b) == \A k \in 1..3 : Abs(a[k] - b[k]) <= 1

NoDuplicates(s) == \A j, k \in 1..Len(s) : j # k => s[j] # s[k]

\* C2: Query(p) returns every index stored in a valid cell at an offset in
\* {-1,0,1}^3 from GetCellIndices(p), nothing else, and each index once.
C2_QueryIsNeighbourUnion ==
    op = "Query" =>
        /\ NoDuplicates(result)
        /\ \A v \in StoreIndices :
              v \in Range(result) <=>
                  \E xyz \in ValidCells :
                      /\ Adjacent(xyz, GetCellIndices(arg))
                      /\ \E k \in 1..Len(gridCells[Get1DIndex(xyz[1], xyz[2], xyz[3])]) :
                            gridCells[Get1DIndex(xyz[1], xyz[2], xyz[3])][k] = v
        /\ Range(result) \subseteq StoreIndices

\* A query that returns an index stored twice in one cell and in two cells of
\* the block, and leaves out an index stored only outside the block.
C2_Witness ==
    /\ op = "Query"
    /\ \E v \in Range(result) :
          /\ \E c \in DOMAIN gridCells : Count(gridCells[c], v) = 2
          /\ \E c1, c2 \in DOMAIN gridCells :
                /\ c1 # c2
                /\ Adjacent(CellCoords(c1), GetCellIndices(arg))
                /\ Adjacent(CellCoords(c2), GetCellIndices(arg))
                /\ v \in Range(gridCells[c1]) /\ v \in Range(gridCells[c2])
    /\ \E w \in StoreIndices :
          /\ w \notin Range(result)
          /\ \E c \in DOMAIN gridCells : w \in Range(gridCells[c])

\* The world positions the properties range over.
LatticePositions ==
    { <<x, y, z>> : x \in -4..9, y \in -2..5, z \in -3..4 }

\* Position p lies in the region of space of cell xyz.
InCellRegion(xyz, p) ==
    \A k \in 1..3 :
        /\ gridMinBounds[k] + xyz[k] * gridCellSize[k] <= p[k]
        /\ p[k] < gridMinBounds[k] + (xyz[k] + 1) * gridCellSize[k]

\* C8: once an object is added with a bounding box that lies inside one grid
\* cell, Query at every position inside that cell includes its index.
C8_AddedInsideOneCellIsFound ==
    op = "Add" =>
        \A xyz \in ValidCells :
            (InCellRegion(xyz, arg.worldBounds.min) /\ InCellRegion(xyz, arg.worldBounds.max))
            => \A p \in LatticePositions :
                   InCellRegion(xyz, p) =>
                       arg.instanceIndex \in Range(Query(gridCells, p))

\* An Add of a box inside one cell, with a lattice position in that cell that
\* is not a corner of the box.
C8_Witness ==
    /\ op = "Add"
    /\ \E xyz \in ValidCells :
          /\ InCellRegion(xyz, arg.worldBounds.min)
          /\ InCellRegion(xyz, arg.worldBounds.max)
          /\ \E p \in LatticePositions :
                /\ InCellRegion(xyz, p)
                /\ p # arg.worldBounds.min /\ p # arg.worldBounds.max
                /\ arg.instanceIndex \in Range(Query(gridCells, p))

----------------------------------------------------------------------------
(* Specification SpecIndexer: GetCellIndices over grid geometries *)

\* One axis of a geometry: minimum, maximum and cell size.
AxisGeometries ==
    { <<0, 6, 2>>, <<-3, 4, 3>>, <<0, 5, 0>>, <<2, 2, 2>>, <<1, -2, -1>> }

IndexerCoords == { -7, 0, 4, 9 }

InitIndexer ==
    /\ \E ax, ay, az \in AxisGeometries :
          Constructed(<<ax[1], ay[1], az[1]>>, <<ax[2], ay[2], az[2]>>,
                      <<ax[3], ay[3], az[3]>>)
    /\ instances = <<>>
    /\ builtFrom = <<>>
    /\ op = "UniformGrid"
    /\ arg = <<>>
    /\ result = <<>>
    /\ MainAt("none")

NextIndexer ==
    \E x, y, z \in IndexerCoords : GetCellIndicesStep(<<x, y, z>>)

SpecIndexer == InitIndexer /\ [][NextIndexer]_vars

----------------------------------------------------------------------------
(* Specification SpecRay: QueryRay over rays and distances.  The grid holds  *)
(* one object in the middle of every cell (object c in cell c) and one more  *)
(* that spans eight cells; the ray of the call is drawn in the initial state *)
(* and the one step carries the call out.                                    *)

RayGrid == [min |-> <<-4, 0, 4>>, max |-> <<8, 8, 12>>, cell |-> <<4, 4, 4>>]

\* The centre of the cell (x, y, z) of RayGrid.
RayCellCentre(x, y, z) ==
    <<RayGrid.min[1] + x * RayGrid.cell[1] + RayGrid.cell[1] \div 2,
      RayGrid.min[2] + y * RayGrid.cell[2] + RayGrid.cell[2] \div 2,
      RayGrid.min[3] + z * RayGrid.cell[3] + RayGrid.cell[3] \div 2>>

RayInstances ==
    [i \in 1..12 |->
        Asteroid(RayCellCentre((i - 1) % 3, ((i - 1) \div 3) % 2, (i - 1) \div 6),
                 1, TRUE)]
    \o << Asteroid(<<0, 4, 8>>, 3, TRUE) >>

RayOrigins ==
    { <<x, y, z>> : x \in {-7, -4, -2, 1, 6, 9},
                    y \in {-3, 0, 2, 4, 6, 9},
                    z \in {6, 8} }

RayDirections ==
    { <<x, y, z>> : x \in {0, 1, -1, 64, DirScale \div 2, -(DirScale \div 2),
                           DirScale, -DirScale},
                    y \in {0, 1, -1, -64, DirScale \div 2, DirScale, -DirScale},
                    z \in {0, -1, 64, DirScale, -DirScale} }

RayDistances == { -1, 0, 3, 6, 8, 30 }

InitRay ==
    /\ ConstructedFields(RayGrid.min, RayGrid.max, RayGrid.cell)
    /\ instances = RayInstances
    /\ gridCells = BuildInstanced(EmptyCells(totalCells), instances)
    /\ builtFrom = <<instances>>
    /\ op = "call"
    /\ \E o \in RayOrigins, d \in RayDirections, m \in RayDistances :
          arg = [ray |-> [position |-> o, direction |-> d], maxDistance |-> m]
    /\ result = <<>>
    /\ MainAt("none")

NextRay == op = "call" /\ QueryRayStep(arg.ray, arg.maxDistance)

SpecRay == InitRay /\ [][NextRay]_vars

\* The ray parameter at which the line of the ray meets the coordinate c on
\* axis k, for a direction component that is not zero.
CrossingT(ray, k, c) == Quot(c - ray.position[k], ray.direction[k])

\* The lower and the upper face of cell xyz on axis k.
CellLo(xyz, k) == gridMinBounds[k] + xyz[k] * gridCellSize[k]
CellHi(xyz, k) == gridMinBounds[k] + (xyz[k] + 1) * gridCellSize[k]

\* The parameters between which the ray is strictly between the two faces of
\* cell xyz on axis k (direction component not zero).
EnterT(ray, xyz, k) ==
    IF ray.direction[k] > 0 THEN CrossingT(ray, k, CellLo(xyz, k))
    ELSE CrossingT(ray, k, CellHi(xyz, k))
ExitT(ray, xyz, k) ==
    IF ray.direction[k] > 0 THEN CrossingT(ray, k, CellHi(xyz, k))
    ELSE CrossingT(ray, k, CellLo(xyz, k))

\* a < b for two finite rationals
RatLess(a, b) == a.num * b.den < b.num * a.den

MovingAxes(ray) == { k \in 1..3 : ray.direction[k] # 0 }

\* The ray is in the interior of cell xyz at some parameter t, 0 <= t < m.
RayTouchesInterior(ray, m, xyz) ==
    /\ m > 0
    /\ \A k \in (1..3) \ MovingAxes(ray) :
          CellLo(xyz, k) < ray.position[k] /\ ray.position[k] < CellHi(xyz, k)
    /\ \A j \in MovingAxes(ray) :
          /\ RatLess(EnterT(ray, xyz, j), Distance(m))
          /\ RatLess(Zero, ExitT(ray, xyz, j))
          /\ \A k \in MovingAxes(ray) : RatLess(EnterT(ray, xyz, j), ExitT(ray, xyz, k))

\* C3: for a ray of non-degenerate direction, QueryRay returns, without
\* duplicates, every index stored in a cell whose interior the ray passes
\* through at a parameter t with 0 <= t < maxDistance.
C3_RaySkipsNoCell ==
    (op = "QueryRay" /\ ~NearZeroLength(arg.ray.direction)) =>
        /\ NoDuplicates(result)
        /\ \A xyz \in ValidCells :
              RayTouchesInterior(arg.ray, arg.maxDistance, xyz) =>
                  Range(gridCells[Get1DIndex(xyz[1], xyz[2], xyz[3])])
                      \subseteq Range(result)

\* The same for the rays whose direction components are zero or above the
\* 0.0001f threshold.
C3_RaySkipsNoCellPlainDirections ==
    (op = "QueryRay" /\ ~NearZeroLength(arg.ray.direction)
       /\ \A k \in 1..3 : arg.ray.direction[k] = 0 \/ NonNegligible(arg.ray.direction[k])) =>
        /\ NoDuplicates(result)
        /\ \A xyz \in ValidCells :
              RayTouchesInterior(arg.ray, arg.maxDistance, xyz) =>
                  Range(gridCells[Get1DIndex(xyz[1], xyz[2], xyz[3])])
                      \subseteq Range(result)

\* The direction has a squared length below 0.0001 (stated on the components,
\* which such a direction keeps below 1/64).
SquaredLengthBelowThreshold(v) ==
    /\ \A k \in 1..3 : Abs(v[k]) < DirScale \div 64
    /\ (v[1] * v[1] + v[2] * v[2] + v[3] * v[3]) * EpsDen < DirScale * DirScale

\* C7: for a direction of squared length below 0.0001 and any maxDistance,
\* QueryRay(ray, maxDistance) returns what Query(ray origin) returns.
C7_DegenerateRayIsQuery ==
    (op = "QueryRay" /\ SquaredLengthBelowThreshold(arg.ray.direction)) =>
        /\ result = Query(gridCells, arg.ray.position)
        /\ \A xyz \in ValidCells :
              Adjacent(xyz, GetCellIndices(arg.ray.position)) =>
                  Range(gridCells[Get1DIndex(xyz[1], xyz[2], xyz[3])])
                      \subseteq Range(result)

\* A call with maxDistance 0 and a short direction that is not zero and has a
\* component above the per-axis threshold, which returns more than the cell
\* of the origin holds.
C7_Witness ==
    /\ op = "QueryRay"
    /\ SquaredLengthBelowThreshold(arg.ray.direction)
    /\ \E k \in 1..3 : NonNegligible(arg.ray.direction[k])
    /\ arg.maxDistance = 0
    /\ LET o == GetCellIndices(arg.ray.position)
       IN Range(result) # Range(gridCells[Get1DIndex(o[1], o[2], o[3])])

\* The direction is a unit vector along a grid axis.
AxisUnitDirection(d) ==
    \E k \in 1..3 : Abs(d[k]) = DirScale /\ \A j \in (1..3) \ {k} : d[j] = 0

\* The axis of such a direction.
AxisOf(d) == CHOOSE k \in 1..3 : d[k] # 0

\* Point p lies on the ray of an axis unit direction, and how far from the
\* origin.
OnAxisRay(ray, p) ==
    /\ \A j \in (1..3) \ {AxisOf(ray.direction)} : p[j] = ray.position[j]
    /\ (p[AxisOf(ray.direction)] - ray.position[AxisOf(ray.direction)])
          * StepOf(ray.direction[AxisOf(ray.direction)]) >= 0
DistanceTo(ray, p) == Abs(p[AxisOf(ray.direction)] - ray.position[AxisOf(ray.direction)])

\* Objects a and b (indices) are each held by one cell only, the two cells are
\* neighbours, and both centres lie on the ray, a nearer than b.
NearerAndFarther(ray, a, b) ==
    /\ a # b
    /\ OnAxisRay(ray, instances[a + 1].position)
    /\ OnAxisRay(ray, instances[b + 1].position)
    /\ DistanceTo(ray, instances[a + 1].position)
          < DistanceTo(ray, instances[b + 1].position)
    /\ \E ca, cb \in DOMAIN gridCells :
          /\ \A c \in DOMAIN gridCells : a \in Range(gridCells[c]) <=> c = ca
          /\ \A c \in DOMAIN gridCells : b \in Range(gridCells[c]) <=> c = cb
          /\ ca # cb
          /\ Adjacent(CellCoords(ca), CellCoords(cb))

ObjectIndices == 0..(Len(instances) - 1)

EntryDistance(ray, b) ==
    LET cb == CHOOSE c \in DOMAIN gridCells : b \in Range(gridCells[c])
        k == AxisOf(ray.direction)
        face == IF ray.direction[k] > 0 THEN CellLo(CellCoords(cb), k)
                ELSE CellHi(CellCoords(cb), k)
    IN (face - ray.position[k]) * StepOf(ray.direction[k])

----------------------------------------------------------------------------
(* Specification SpecScenario: the grid of the concrete scenario, bounds     *)
(* -50..50 with cell size 10, holding object 0 at (5,5,5) with radius 1      *)

ScenarioGrid ==
    [min |-> <<World(-50), World(-50), World(-50)>>,
     max |-> <<World(50), World(50), World(50)>>,
     cell |-> <<World(10), World(10), World(10)>>]

ScenarioInstances == << Asteroid(<<World(5), World(5), World(5)>>, World(1), TRUE) >>

ScenarioPositions ==
    { <<World(x), World(y), World(z)>> :
        x \in {-60, 4, 5, 25, 49}, y \in {4, 5, 25}, z \in {4, 5} }

ScenarioRays ==
    { [position |-> <<World(-60), World(y), World(5)>>, direction |-> <<d, 0, 0>>] :
        y \in {5, 25}, d \in {DirScale, -DirScale} }

ScenarioDistances == { World(10 * k) : k \in 0..20 }

InitScenario ==
    /\ Constructed(ScenarioGrid.min, ScenarioGrid.max, ScenarioGrid.cell)
    /\ instances = ScenarioInstances
    /\ builtFrom = <<>>
    /\ op = "UniformGrid"
    /\ arg = <<>>
    /\ result = <<>>
    /\ MainAt("none")

NextScenario ==
    \/ BuildInstancedStep
    \/ \E p \in ScenarioPositions : QueryStep(p)
    \/ \E ray \in ScenarioRays, m \in ScenarioDistances : QueryRayStep(ray, m)

SpecScenario == InitScenario /\ [][NextScenario]_vars

\* The ray of the scenario
ScenarioRay ==
    [position |-> <<World(-60), World(5), World(5)>>, direction |-> <<DirScale, 0, 0>>]

\* C9: in the built scenario grid Query((4,4,4)) includes 0, the ray from
\* (-60,5,5) along (1,0,0) includes 0 with maxDistance 200 and does not
\* include it with maxDistance 50.
C9_Scenario ==
    builtFrom # <<>> =>
        /\ (op = "Query" /\ arg = <<World(4), World(4), World(4)>>)
              => 0 \in Range(result)
        /\ (op = "QueryRay" /\ arg.ray = ScenarioRay /\ arg.maxDistance = World(200))
              => 0 \in Range(result)
        /\ (op = "QueryRay" /\ arg.ray = ScenarioRay /\ arg.maxDistance = World(50))
              => 0 \notin Range(result)

\* The ray of the scenario with maxDistance 50, on the built grid of 1000
\* cells that holds object 0 in one cell.
C9_Witness ==
    /\ builtFrom # <<>>
    /\ totalCells = 1000
    /\ <<gridDimX, gridDimY, gridDimZ>> = <<10, 10, 10>>
    /\ gridCells[Get1DIndex(5, 5, 5)] = <<0>>
    /\ op = "QueryRay"
    /\ arg.ray = ScenarioRay
    /\ arg.maxDistance = World(50)
    /\ result = <<>>

----------------------------------------------------------------------------
(* Specification SpecCtor: new UniformGrid over geometries, small and large *)

\* new UniformGrid(worldMin, worldMax, cellSize) as the caller meets it: the
\* constructor returns, or gridCells.resize(totalCells) throws
\* std::length_error because a negative totalCells, converted to size_t,
\* exceeds max_size().
NewUniformGrid(worldMin, worldMax, cellSize) ==
    /\ ConstructedFields(worldMin, worldMax, cellSize)
    /\ gridCells = EmptyCells(Max(totalCells, 0))
    /\ op = IF totalCells < 0 THEN "UniformGrid threw" ELSE "UniformGrid"
    /\ arg = [worldMin |-> worldMin, worldMax |-> worldMax, cellSize |-> cellSize]

\* The geometries of SpecIndexer, the grid of the scenario, and two grids of
\* cell size 1 over 2048 x 2048 x 512 and 2048 x 2048 x 1024 world units.
CtorGeometries ==
    { [min |-> <<ax[1], ay[1], az[1]>>, max |-> <<ax[2], ay[2], az[2]>>,
       cell |-> <<ax[3], ay[3], az[3]>>] : ax, ay, az \in AxisGeometries }
    \cup { ScenarioGrid }
    \cup { [min |-> <<0, 0, 0>>,
            max |-> <<World(2048), World(2048), World(z)>>,
            cell |-> <<World(1), World(1), World(1)>>] : z \in {512, 1024} }

CtorProbes == { <<-7, 0, 4>>, <<9, 4, -7>> }

InitCtor ==
    /\ \E g \in CtorGeometries : NewUniformGrid(g.min, g.max, g.cell)
    /\ instances = <<>>
    /\ builtFrom = <<>>
    /\ result = <<>>
    /\ MainAt("none")

NextCtor ==
    /\ op # "UniformGrid threw"
    /\ \E p \in CtorProbes : GetCellIndicesStep(p)

SpecCtor == InitCtor /\ [][NextCtor]_vars

\* What the constructor is to make of its arguments, axis by axis.
ClaimedCellSize(k) == IF arg.cellSize[k] <= 0 THEN LenScale ELSE arg.cellSize[k]
ClaimedDim(k) ==
    Max(1, CeilDiv(arg.worldMax[k] - arg.worldMin[k], ClaimedCellSize(k)))
ClaimedFields ==
    /\ op = "UniformGrid"
    /\ gridCellSize = [k \in 1..3 |-> ClaimedCellSize(k)]
    /\ <<gridDimX, gridDimY, gridDimZ>> = [k \in 1..3 |-> ClaimedDim(k)]
    /\ ~IntMulOverflows(gridDimX, gridDimY)
    /\ ~IntMulOverflows(gridDimX * gridDimY, gridDimZ)
    /\ totalCells = gridDimX * gridDimY * gridDimZ
    /\ DOMAIN gridCells = 0..(totalCells - 1)
    /\ \A c \in DOMAIN gridCells : gridCells[c] = <<>>
    /\ (arg = [worldMin |-> ScenarioGrid.min, worldMax |-> ScenarioGrid.max,
               cellSize |-> ScenarioGrid.cell])
          => (<<gridDimX, gridDimY, gridDimZ>> = <<10, 10, 10>> /\ totalCells = 1000)

\* C11: the constructor never fails; a cell size <= 0 becomes 1.0, each
\* dimension is the ceiling of extent / cell size and at least 1, totalCells
\* is nx * ny * nz, the store holds totalCells empty cells, and the scenario
\* grid has dimensions (10, 10, 10) and 1000 cells.
C11_ConstructorNeverFails ==
    op \in {"UniformGrid", "UniformGrid threw"} => ClaimedFields

\* C11 for the arguments whose dimensions have a product within the int
\* range: there the constructor does all of the above.
C11_ConstructorWithinIntRange ==
    ( /\ op \in {"UniformGrid", "UniformGrid threw"}
      /\ ~IntMulOverflows(ClaimedDim(1), ClaimedDim(2))
      /\ ~IntMulOverflows(ClaimedDim(1) * ClaimedDim(2), ClaimedDim(3)) )
    => ClaimedFields

----------------------------------------------------------------------------
(* Specification SpecLinear: IsValidIndex and Get1DIndex over dimension      *)
(* triples                                                                   *)

MaxDim == 4

Get1DIndexStep(ix, iy, iz) ==
    /\ result' = Get1DIndex(ix, iy, iz)
    /\ op' = "Get1DIndex"
    /\ arg' = <<ix, iy, iz>>
    /\ UNCHANGED <<gameVars, gridVars, gridCells, instances, builtFrom>>

IsValidIndexStep(ix, iy, iz) ==
    /\ result' = IsValidIndex(ix, iy, iz)
    /\ op' = "IsValidIndex"
    /\ arg' = <<ix, iy, iz>>
    /\ UNCHANGED <<gameVars, gridVars, gridCells, instances, builtFrom>>

\* Coordinates from one below the grid to one above it
LinearCoords == -1..MaxDim

\* A grid of every dimension triple and one pending call on it.
InitLinear ==
    /\ \E nx, ny, nz \in 1..MaxDim :
          Constructed(<<0, 0, 0>>, <<World(nx), World(ny), World(nz)>>,
                      <<World(1), World(1), World(1)>>)
    /\ instances = <<>>
    /\ builtFrom = <<>>
    /\ op \in {"call IsValidIndex", "call Get1DIndex"}
    /\ arg \in LinearCoords \X LinearCoords \X LinearCoords
    /\ result = <<>>
    /\ MainAt("none")

NextLinear ==
    \/ op = "call IsValidIndex" /\ IsValidIndexStep(arg[1], arg[2], arg[3])
    \/ op = "call Get1DIndex" /\ Get1DIndexStep(arg[1], arg[2], arg[3])

SpecLinear == InitLinear /\ [][NextLinear]_vars

\* The triples IsValidIndex accepts, found by calling it.
AcceptedTriples ==
    { t \in LinearCoords \X LinearCoords \X LinearCoords :
        IsValidIndex(t[1], t[2], t[3]) }

----------------------------------------------------------------------------
(* More properties of the build lifecycle (specification Spec) *)

\* The cell of GetCellIndices(p), by its linear id
CellIdOf(p) ==
    Get1DIndex(GetCellIndices(p)[1], GetCellIndices(p)[2], GetCellIndices(p)[3])

\* C13: after BuildInstanced every object active at the build, of any radius
\* and at any position, is stored in the cell GetCellIndices(its position),
\* and a Query at its position returns its index.
C13_ActiveObjectInOwnCell ==
    builtFrom # <<>> =>
        \A i \in 1..Len(builtFrom[1]) :
            builtFrom[1][i].isActive =>
                /\ (i - 1) \in Range(gridCells[CellIdOf(builtFrom[1][i].position)])
                /\ (op = "Query" /\ arg = builtFrom[1][i].position)
                      => (i - 1) \in Range(result)

\* A Query at the position of an object below the grid bounds with a negative
\* radius, after a build at which the object was active, returning it.
C13_Witness ==
    /\ builtFrom # <<>>
    /\ op = "Query"
    /\ \E i \in 1..Len(builtFrom[1]) :
          /\ builtFrom[1][i].isActive
          /\ builtFrom[1][i].collisionRadius < 0
          /\ builtFrom[1][i].position[1] < gridMinBounds[1]
          /\ arg = builtFrom[1][i].position
          /\ (i - 1) \in Range(result)

\* C14: on a grid never built, or built from an empty vector or from a vector
\* of inactive objects only, every Query and every QueryRay returns the empty
\* list.
C14_NothingBuiltNothingReturned ==
    ( /\ op \in {"Query", "QueryRay"}
      /\ \/ builtFrom = <<>>
         \/ \A i \in 1..Len(builtFrom[1]) : ~builtFrom[1][i].isActive )
    => result = <<>>

\* A QueryRay from the position of an object, after a build that found every
\* object inactive; the object is active again at the call.
C14_Witness ==
    /\ op = "QueryRay"
    /\ builtFrom # <<>>
    /\ Len(builtFrom[1]) > 0
    /\ \A i \in 1..Len(builtFrom[1]) : ~builtFrom[1][i].isActive
    /\ \E i \in 1..Len(instances) :
          instances[i].isActive /\ arg.ray.position = instances[i].position
    /\ result = <<>>

----------------------------------------------------------------------------
(* Specification SpecFrame: the caller changes its vector between builds *)

\* The caller writes an element's position.
SetPositionStep(i, p) ==
    /\ instances[i].position # p
    /\ instances' = [instances EXCEPT ![i].position = p]
    /\ op' = "SetPosition"
    /\ arg' = <<i - 1, p>>
    /\ result' = <<>>
    /\ UNCHANGED <<gameVars, gridVars, gridCells, builtFrom>>

FramePositions == { <<0, 1, 0>>, <<5, 5, 2>>, <<-4, 1, 2>> }

FrameRays ==
    { [position |-> <<-4, 1, 2>>, direction |-> <<DirScale, 0, 0>>],
      [position |-> <<6, 3, 2>>, direction |-> <<-DirScale, -DirScale, 0>>] }

InitFrame ==
    /\ Constructed(LifecycleGrid.min, LifecycleGrid.max, LifecycleGrid.cell)
    /\ instances = << Asteroid(<<0, 1, 0>>, 2, TRUE), Asteroid(<<-4, 1, 2>>, -1, TRUE) >>
    /\ builtFrom = <<>>
    /\ op = "UniformGrid"
    /\ arg = <<>>
    /\ result = <<>>
    /\ MainAt("none")

NextFrame ==
    \/ BuildInstancedStep
    \/ \E i \in 1..Len(instances), a \in BOOLEAN : SetActiveStep(i, a)
    \/ \E i \in 1..Len(instances), p \in FramePositions : SetPositionStep(i, p)
    \/ \E p \in FramePositions : QueryStep(p)
    \/ \E ray \in FrameRays, m \in ProbeDistances : QueryRayStep(ray, m)

SpecFrame == InitFrame /\ [][NextFrame]_vars

\* What the last build left in the cells, computed from what it read.
CellsOfLastBuild == BuildInstanced(FreshCells, builtFrom[1])

\* C15: a step that is not Clear, Add or BuildInstanced leaves every cell as
\* it was; a query returns what it would have returned right after the last
\* build, whatever was queried or written to the vector since, so the same
\* query repeated returns the same list and an object deactivated after the
\* build is still returned.
C15_StoreChangesOnlyByBuild ==
    [][ /\ op' \notin {"Clear", "Add", "BuildInstanced"} => gridCells' = gridCells
        /\ (op' = "Query" /\ builtFrom' # <<>>)
              => result' = Query(CellsOfLastBuild, arg')
        /\ (op' = "QueryRay" /\ builtFrom' # <<>>)
              => result' = QueryRay(CellsOfLastBuild, arg'.ray, arg'.maxDistance)
        /\ (op' = op /\ arg' = arg) => result' = result
        /\ (op' = "Query" /\ builtFrom' # <<>>)
              => \A i \in 1..Len(instances) :
                    ( /\ builtFrom[1][i].isActive
                      /\ ~instances[i].isActive
                      /\ arg' = builtFrom[1][i].position )
                    => (i - 1) \in Range(result')
      ]_vars

\* A Query that returns an object which was active at the build and is
\* inactive at the call, while the other object was moved since the build.
C15_Witness ==
    /\ op = "Query"
    /\ builtFrom # <<>>
    /\ \E i, j \in 1..Len(instances) :
          /\ builtFrom[1][i].isActive
          /\ ~instances[i].isActive
          /\ arg = builtFrom[1][i].position
          /\ (i - 1) \in Range(result)
          /\ j # i
          /\ instances[j].position # builtFrom[1][j].position

----------------------------------------------------------------------------
(* More properties of QueryRay (specification SpecRay) *)

\* The traversal of the call: the state in which the loop of QueryRay ends.
TraversalEnd(cells) ==
    RayLoop(cells, arg.ray, arg.maxDistance, RayStart(cells, arg.ray))

\* C16: for a non-degenerate direction the loop of QueryRay ends after at
\* most nx + ny + nz iterations; every iteration has moved one coordinate by
\* the step of its axis, and the count is the same on an empty store.
C16_RayLoopBounded ==
    (op = "QueryRay" /\ ~SquaredLengthBelowThreshold(arg.ray.direction)) =>
        LET start == GetCellIndices(arg.ray.position)
            end == TraversalEnd(gridCells)
        IN /\ end.steps <= gridDimX + gridDimY + gridDimZ
           /\ \A k \in 1..3 :
                 (end.idx[k] - start[k]) * StepOf(arg.ray.direction[k]) >= 0
           /\ end.steps = Abs(end.idx[1] - start[1]) + Abs(end.idx[2] - start[2])
                            + Abs(end.idx[3] - start[3])
           /\ end.steps = TraversalEnd(FreshCells).steps
           /\ result = SortedSeq(end.unique)

\* A ray from below the grid on x, oblique in x and y, whose maxDistance ends
\* nothing: the loop runs until it leaves the grid at the far side of x,
\* having moved on y as well.
C16_Witness ==
    /\ op = "QueryRay"
    /\ ~SquaredLengthBelowThreshold(arg.ray.direction)
    /\ arg.maxDistance = 30
    /\ arg.ray.position[1] < gridMinBounds[1]
    /\ LET end == TraversalEnd(gridCells)
       IN /\ end.idx[1] = gridDimX
          /\ end.idx[2] # GetCellIndices(arg.ray.position)[2]
          /\ end.steps > gridDimX
          /\ Less(end.currentT, Distance(arg.maxDistance))

----------------------------------------------------------------------------
(* main (src/unnamed/part_001) and the score system (src/unnamed/part_003).  *)
(* One step of main is one pass of its loop up to EndDrawing (a frame of     *)
(* the screen it is on), or one half of the loading block that follows       *)
(* EndDrawing; pc = "frame" holds at the top of the loop, the frame boundary.*)
(* What raylib and the camera report in a frame (keys, mouse, time, the      *)
(* camera's position and forward direction, the outcome of the exact ray     *)
(* test) is input to the step.                                               *)

\* InitializeScore(): the new currentScore
InitializeScore == 0
\* AddScore(points): the new currentScore
AddScoreCountsDouble(score, points) == IF points > 0 THEN score + 2 * points ELSE score
AddScore(score, points) == IF points > 0 THEN score + points ELSE score

INITIAL_HIT_POINTS == 3
mainMenuOptions == 2
\* 0.4f seconds, counted in frame times of 0.2 s
BOUNCE_DURATION == 2
HIT_MAX_DISTANCE == World(50)

\* Stands for NUM_ASTEROIDS: the most asteroids a generated field holds.
MaxAsteroids == 2

\* The grid of the loading block: bounds -maxExtent .. maxExtent on every axis
\* and the cell size of main, scaled down to a grid of 2 x 2 x 2 cells.
GameMaxExtent == World(2)
GameCellSize == <<World(2), World(2), World(2)>>

\* What InitializeAsteroidField can return: up to MaxAsteroids asteroids (one
\* whose mesh fails is skipped), each active with INITIAL_HIT_POINTS.
GeneratedAsteroid(i) ==
    [position |-> IF i % 2 = 1 THEN <<0, 0, 0>> ELSE <<3, 1, -2>>,
     collisionRadius |-> IF i % 2 = 1 THEN 1 ELSE 2,
     isActive |-> TRUE,
     hitPoints |-> INITIAL_HIT_POINTS]
GeneratedFields == { [i \in 1..n |-> GeneratedAsteroid(i)] : n \in 0..MaxAsteroids }

CameraPositions == { InitialCameraPos, <<0, 0, 0>> }
ForwardDirections == { <<0, 0, -DirScale>>, <<DirScale, 0, 0>> }
DeltaTimes == { 1, 2 }
PauseButtons == { "continue", "newgame", "exit", "none" }

\* One grid call of a step, with the screen main was on when it made it.
GridCall(fn, screen) == [fn |-> fn, screen |-> screen]

\* Where main goes after EndDrawing: into the loading block or to the top of
\* the loop.
AfterDraw(screen, initialized) ==
    IF screen = "LOADING" /\ ~initialized THEN "load" ELSE "frame"

\* A frame on the main menu.
MainMenuFrame(keyDown, keyUp, keyEnter) ==
    /\ pc = "frame" /\ ~shouldExit /\ currentScreen = "MAIN_MENU"
    /\ LET selection == IF keyDown THEN (mainMenuSelection + 1) % mainMenuOptions
                        ELSE IF keyUp
                        THEN (mainMenuSelection - 1 + mainMenuOptions) % mainMenuOptions
                        ELSE mainMenuSelection
           newGame == keyEnter /\ selection = 0
           quit == keyEnter /\ selection = 1
       IN /\ mainMenuSelection' = selection
          /\ currentScore' = IF newGame THEN InitializeScore ELSE currentScore
          /\ playerPos' = IF newGame THEN InitialCameraPos ELSE playerPos
          /\ particles' = IF newGame THEN InitializeParticles(particles)
                          ELSE particles
          /\ nextParticleIndex' = IF newGame THEN 0 ELSE nextParticleIndex
          /\ currentScreen' = IF newGame THEN "LOADING" ELSE currentScreen
          /\ gameInitialized' = IF newGame THEN FALSE ELSE gameInitialized
          /\ shouldExit' = IF quit THEN TRUE ELSE shouldExit
          /\ pc' = AfterDraw(currentScreen', gameInitialized')
    /\ frameCalls' = <<>>
    /\ op' = "MainMenuFrame"
    /\ arg' = <<>>
    /\ result' = <<>>
    /\ UNCHANGED <<gridVars, gridCells, instances, builtFrom, collisionGrid,
                   isBouncing, bounceTimer>>

\* A frame on the pause menu.
PauseMenuFrame(keyP, keyEscape, click, over) ==
    /\ pc = "frame" /\ ~shouldExit /\ currentScreen = "PAUSE_MENU"
    /\ LET resumed == keyEscape \/ (click /\ over = "continue")
           newGame == click /\ over = "newgame"
           quit == click /\ over = "exit"
       IN /\ currentScreen' = IF newGame THEN "LOADING"
                              ELSE IF resumed THEN "GAMEPLAY"
                              ELSE currentScreen
          /\ currentScore' = IF newGame THEN InitializeScore ELSE currentScore
          /\ playerPos' = IF newGame THEN InitialCameraPos ELSE playerPos
          /\ particles' = IF newGame THEN InitializeParticles(particles)
                          ELSE particles
          /\ nextParticleIndex' = IF newGame THEN 0 ELSE nextParticleIndex
          /\ gameInitialized' = IF newGame THEN FALSE ELSE gameInitialized
          /\ shouldExit' = IF quit THEN TRUE ELSE shouldExit
          /\ pc' = AfterDraw(currentScreen', gameInitialized')
    /\ frameCalls' = <<>>
    /\ op' = "PauseMenuFrame"
    /\ arg' = <<>>
    /\ result' = <<>>
    /\ UNCHANGED <<gridVars, gridCells, instances, builtFrom, collisionGrid,
                   mainMenuSelection, isBouncing, bounceTimer>>

\* Mutant of IsCandidate: the index is checked for range only.
IsCandidateIgnoresActivity(index) ==
    index >= 0 /\ index < Len(instances)

\* The checks main makes on a candidate index before the exact test.
IsCandidate(index) ==
    /\ index >= 0 /\ index < Len(instances)
    /\ instances[index + 1].isActive

\* The radius 0.5f of the player's sphere.
PlayerRadius == LenScale \div 2

\* raylib's CheckCollisionSpheres: the distance of the centres is at most the
\* sum of the radii.
CheckCollisionSpheres(center1, radius1, center2, radius2) ==
    LET dx == center2[1] - center1[1]
        dy == center2[2] - center1[2]
        dz == center2[3] - center1[3]
    IN dx * dx + dy * dy + dz * dz <= (radius1 + radius2) * (radius1 + radius2)

\* Mutant of HitPointsExhausted: an asteroid is destroyed below 0 hit points.
HitPointsExhaustedBelowZero(hitPoints) == hitPoints < 0

\* asteroids[closestAsteroidIndex].hitPoints <= 0 after the decrement
HitPointsExhausted(hitPoints) == hitPoints <= 0

\* The count of the burst a destroyed asteroid emits (50 of the pool of 500
\* in the code).
DestroyBurst == 2

\* The lifetimes the random draws give the particles of a burst.
BurstLifeTimes == { 2 }

\* A frame of gameplay.  movedTo is where the camera is after its update,
\* forward its direction; aimed is the index whose GetRayCollisionSphere hit
\* is the closest within HIT_MAX_DISTANCE (-1: none); lifeTimes are the
\* lifetimes drawn for the particles of a burst.
GameplayFrame(keyP, click, deltaTime, movedTo, forward, aimed, lifeTimes) ==
    /\ pc = "frame" /\ ~shouldExit /\ currentScreen = "GAMEPLAY"
    /\ LET run == gameInitialized /\ ~keyP
           bounceBranch == run /\ isBouncing
           moveBranch == run /\ ~isBouncing
           gridThere == collisionGrid # "nullptr"
           timer == IF bounceBranch THEN bounceTimer - deltaTime ELSE bounceTimer
       IN \E nearbyIndices \in { IF moveBranch /\ gridThere
                                 THEN Query(gridCells, movedTo) ELSE <<>> } :
          LET colliding == { k \in 1..Len(nearbyIndices) :
                               /\ IsCandidate(nearbyIndices[k])
                               /\ CheckCollisionSpheres(
                                      movedTo, PlayerRadius,
                                      instances[nearbyIndices[k] + 1].position,
                                      instances[nearbyIndices[k] + 1].collisionRadius) }
              collided == colliding # {}
              collidedWith ==
                  IF collided
                  THEN nearbyIndices[CHOOSE k \in colliding :
                                         \A j \in colliding : k <= j]
                  ELSE -1
              bouncing == IF bounceBranch THEN timer > 0
                          ELSE IF moveBranch THEN collided
                          ELSE isBouncing
              clicked == moveBranch /\ ~bouncing /\ click
              actionRay == [position |-> movedTo, direction |-> forward]
          IN \E potentialHitIndices \in
                   { IF clicked /\ gridThere
                     THEN QueryRay(gridCells, actionRay, HIT_MAX_DISTANCE)
                     ELSE <<>> } :
             LET closestAsteroidIndex ==
                     IF aimed \in Range(potentialHitIndices) /\ IsCandidate(aimed)
                     THEN aimed ELSE -1
                 hit == closestAsteroidIndex # -1
                 hitPoints == instances[closestAsteroidIndex + 1].hitPoints - 1
                 updated == IF run THEN UpdateParticles(particles, deltaTime)
                            ELSE particles
                 emitted == IF hit /\ HitPointsExhausted(hitPoints)
                            THEN EmitParticles(updated, nextParticleIndex,
                                               DestroyBurst, lifeTimes)
                            ELSE [particles |-> updated,
                                  nextParticleIndex |-> nextParticleIndex]
             IN /\ particles' = emitted.particles
                /\ nextParticleIndex' = emitted.nextParticleIndex
                /\ currentScreen' = IF gameInitialized /\ keyP THEN "PAUSE_MENU"
                                    ELSE currentScreen
                /\ bounceTimer' = IF moveBranch /\ collided THEN BOUNCE_DURATION
                                  ELSE timer
                /\ isBouncing' = bouncing
                /\ playerPos' = IF bounceBranch /\ timer > 0 THEN movedTo
                                ELSE IF moveBranch /\ ~collided THEN movedTo
                                ELSE playerPos
                /\ instances' =
                      IF hit
                      THEN [instances EXCEPT
                              ![closestAsteroidIndex + 1].hitPoints = hitPoints,
                              ![closestAsteroidIndex + 1].isActive =
                                  IF HitPointsExhausted(hitPoints) THEN FALSE
                                  ELSE @]
                      ELSE instances
                /\ currentScore' = IF hit /\ HitPointsExhausted(hitPoints)
                                   THEN AddScore(currentScore, 10)
                                   ELSE currentScore
                /\ frameCalls' =
                      (IF moveBranch /\ gridThere
                       THEN << GridCall("Query", currentScreen) >> ELSE <<>>)
                      \o (IF clicked /\ gridThere
                          THEN << GridCall("QueryRay", currentScreen) >> ELSE <<>>)
                /\ pc' = AfterDraw(currentScreen', gameInitialized)
                /\ arg' = [keyP |-> keyP, collidedWith |-> collidedWith,
                           hit |-> closestAsteroidIndex]
    /\ op' = "GameplayFrame"
    /\ result' = <<>>
    /\ UNCHANGED <<gridVars, gridCells, builtFrom, collisionGrid, mainMenuSelection,
                   shouldExit, gameInitialized>>

\* The loading block up to the construction of the grid: the previous grid
\* is deleted, the asteroids are generated, a new grid is constructed.
LoadStep(field) ==
    /\ pc = "load"
    /\ LET g == UniformGridCtor(<<-GameMaxExtent, -GameMaxExtent, -GameMaxExtent>>,
                                <<GameMaxExtent, GameMaxExtent, GameMaxExtent>>,
                                GameCellSize)
       IN /\ gridMinBounds' = g.min
          /\ gridMaxBounds' = g.max
          /\ gridCellSize' = g.cell
          /\ gridDimX' = g.dimX
          /\ gridDimY' = g.dimY
          /\ gridDimZ' = g.dimZ
          /\ totalCells' = g.total
          /\ gridCells' = EmptyCells(g.total)
    /\ builtFrom' = <<>>
    /\ instances' = field
    /\ gameInitialized' = TRUE
    /\ collisionGrid' = "grid"
    /\ frameCalls' = (IF collisionGrid # "nullptr"
                      THEN << GridCall("delete", currentScreen) >> ELSE <<>>)
                     \o << GridCall("new", currentScreen) >>
    /\ pc' = "build"
    /\ op' = "LoadStep"
    /\ arg' = <<>>
    /\ result' = <<>>
    /\ UNCHANGED <<currentScreen, mainMenuSelection, shouldExit, currentScore,
                   isBouncing, bounceTimer, playerPos, particles,
                   nextParticleIndex>>

\* Mutant of BuildStep: the grid is left as constructed.
BuildStepWithoutBuild ==
    /\ pc = "build"
    /\ frameCalls' = <<>>
    /\ currentScreen' = "GAMEPLAY"
    /\ pc' = "frame"
    /\ op' = "BuildStep"
    /\ arg' = <<>>
    /\ result' = <<>>
    /\ UNCHANGED <<gridVars, gridCells, builtFrom, instances, mainMenuSelection,
                   shouldExit, gameInitialized, collisionGrid, currentScore,
                   isBouncing, bounceTimer, playerPos, particles,
                   nextParticleIndex>>

\* The rest of the loading block: the grid is built from the asteroids unless
\* there are none, and the screen becomes GAMEPLAY.
BuildStep ==
    /\ pc = "build"
    /\ IF instances # <<>>
       THEN /\ gridCells' = BuildInstanced(gridCells, instances)
            /\ builtFrom' = <<instances>>
            /\ frameCalls' = << GridCall("BuildInstanced", currentScreen) >>
       ELSE /\ UNCHANGED <<gridCells, builtFrom>>
            /\ frameCalls' = <<>>
    /\ currentScreen' = "GAMEPLAY"
    /\ pc' = "frame"
    /\ op' = "BuildStep"
    /\ arg' = <<>>
    /\ result' = <<>>
    /\ UNCHANGED <<gridVars, instances, mainMenuSelection, shouldExit,
                   gameInitialized, collisionGrid, currentScore, isBouncing,
                   bounceTimer, playerPos, particles, nextParticleIndex>>

\* The loop ends (WindowShouldClose() or shouldExit) and main deletes the grid.
CloseStep(windowShouldClose) ==
    /\ pc = "frame"
    /\ windowShouldClose \/ shouldExit
    /\ pc' = "done"
    /\ collisionGrid' = "nullptr"
    /\ frameCalls' = IF collisionGrid # "nullptr"
                     THEN << GridCall("delete", "closing") >> ELSE <<>>
    /\ op' = "CloseStep"
    /\ arg' = <<>>
    /\ result' = <<>>
    /\ UNCHANGED <<gridVars, gridCells, instances, builtFrom, currentScreen,
                   mainMenuSelection, shouldExit, gameInitialized, currentScore,
                   isBouncing, bounceTimer, playerPos, particles,
                   nextParticleIndex>>

----------------------------------------------------------------------------
(* Specification SpecGame: main from its start *)

InitGame ==
    /\ gridMinBounds = <<0, 0, 0>>
    /\ gridMaxBounds = <<0, 0, 0>>
    /\ gridCellSize = <<0, 0, 0>>
    /\ gridDimX = 0
    /\ gridDimY = 0
    /\ gridDimZ = 0
    /\ totalCells = 0
    /\ gridCells = EmptyCells(0)
    /\ instances = <<>>
    /\ builtFrom = <<>>
    /\ op = "main"
    /\ arg = <<>>
    /\ result = <<>>
    /\ MainAt("frame")

NextGame ==
    \/ \E keyDown, keyUp, keyEnter \in BOOLEAN : MainMenuFrame(keyDown, keyUp, keyEnter)
    \/ \E keyP, keyEscape, click \in BOOLEAN, over \in PauseButtons :
          PauseMenuFrame(keyP, keyEscape, click, over)
    \/ \E keyP, click \in BOOLEAN, deltaTime \in DeltaTimes,
          movedTo \in CameraPositions, forward \in ForwardDirections,
          aimed \in -1..(Len(instances) - 1),
          lifeTimes \in [1..DestroyBurst -> BurstLifeTimes] :
          GameplayFrame(keyP, click, deltaTime, movedTo, forward, aimed, lifeTimes)
    \/ \E field \in GeneratedFields : LoadStep(field)
    \/ BuildStep
    \/ \E windowShouldClose \in BOOLEAN : CloseStep(windowShouldClose)

SpecGame == InitGame /\ [][NextGame]_vars

\* The asteroid vector as the loading block of the session generated it:
\* gameplay changes only isActive and hitPoints of an asteroid.
SessionField ==
    [i \in DOMAIN instances |->
        [instances[i] EXCEPT !.isActive = TRUE, !.hitPoints = INITIAL_HIT_POINTS]]

\* The grid main holds is constructed and holds exactly what one
\* BuildInstanced from the session's asteroid vector leaves in a new grid;
\* BuildInstanced ran once on it (main skips the call for an empty vector,
\* and the new grid already is what a build from no asteroid leaves).
OnSessionGrid ==
    /\ collisionGrid = "grid"
    /\ gameInitialized
    /\ gridCells = BuildInstanced(EmptyCells(totalCells), SessionField)
    /\ builtFrom = IF instances = <<>> THEN <<>> ELSE << SessionField >>

\* C17: in the game loop every Query and QueryRay call is made, on the
\* GAMEPLAY screen, on a grid constructed and built from the asteroid vector
\* of the current session; the step of the loading block that makes the
\* screen GAMEPLAY leaves the grid built once from the new vector; and no
\* step taken on the GAMEPLAY or PAUSE_MENU screen inside the loop builds,
\* clears, deletes or replaces the grid.
C17_QueriesOnSessionGrid ==
    [][ /\ \A k \in DOMAIN frameCalls' :
              frameCalls'[k].fn \in {"Query", "QueryRay"} =>
                  /\ frameCalls'[k].screen = "GAMEPLAY"
                  /\ currentScreen = "GAMEPLAY"
                  /\ OnSessionGrid
        /\ (currentScreen = "LOADING" /\ currentScreen' = "GAMEPLAY") =>
              /\ OnSessionGrid'
              /\ instances' = SessionField'
        /\ (currentScreen \in {"GAMEPLAY", "PAUSE_MENU"} /\ pc' # "done") =>
              /\ UNCHANGED <<gridVars, gridCells, builtFrom, collisionGrid>>
              /\ \A k \in DOMAIN frameCalls' :
                    frameCalls'[k].fn \in {"Query", "QueryRay"}
      ]_vars

\* C17 witness: a gameplay frame has just called both Query and QueryRay on
\* a grid built from two asteroids, one of which has since been destroyed.
C17_Witness ==
    /\ pc = "frame" /\ op = "GameplayFrame"
    /\ frameCalls = << GridCall("Query", "GAMEPLAY"), GridCall("QueryRay", "GAMEPLAY") >>
    /\ Len(instances) > 1
    /\ \E i \in DOMAIN instances : ~instances[i].isActive
    /\ OnSessionGrid

\* C18 (as claimed): the P key toggles pause: a gameplay frame in which P is
\* pressed switches to PAUSE_MENU, and a pause-menu frame in which P (and
\* nothing else) is pressed returns to GAMEPLAY.
C18_PTogglesPause ==
    [][ /\ (currentScreen = "GAMEPLAY" /\ op' = "GameplayFrame" /\ arg'.keyP) =>
              currentScreen' = "PAUSE_MENU"
        /\ PauseMenuFrame(TRUE, FALSE, FALSE, "none") =>
              currentScreen' = "GAMEPLAY"
      ]_vars

\* The asteroids of the session that have been destroyed.
Destroyed(field) == { i \in DOMAIN field : ~field[i].isActive }

\* C19: at every frame boundary the score is 10 times the number of
\* destroyed asteroids of the session; a gameplay frame raises it by exactly
\* 10 for an asteroid it destroys and leaves it alone otherwise, no other
\* step on the GAMEPLAY or PAUSE_MENU screen changes it unless it starts a
\* new game, and a step that starts a new game leaves it 0.
C19_ScoreCountsDestroyed ==
    /\ currentScore = 0
    /\ [][ /\ pc' = "frame" => currentScore' = 10 * Cardinality(Destroyed(instances'))
           /\ op' = "GameplayFrame" =>
                 currentScore' = currentScore
                     + 10 * (Cardinality(Destroyed(instances'))
                             - Cardinality(Destroyed(instances)))
           /\ (currentScreen' = "LOADING" /\ currentScreen # "LOADING") =>
                 currentScore' = 0
           /\ (currentScore' # currentScore) =>
                 \/ op' = "GameplayFrame"
                 \/ currentScreen' = "LOADING" /\ currentScreen # "LOADING"
         ]_vars

\* C19 witness: a frame boundary of gameplay at which one asteroid is
\* destroyed and scored, and another has been hit but not destroyed.
C19_Witness ==
    /\ pc = "frame" /\ currentScreen = "GAMEPLAY"
    /\ currentScore = 10
    /\ Cardinality(Destroyed(instances)) = 1
    /\ \E i \in DOMAIN instances :
          instances[i].isActive /\ instances[i].hitPoints < INITIAL_HIT_POINTS

----------------------------------------------------------------------------
(* The distance cut-off of QueryRay (specification SpecRay) *)

\* The running distance t is within maxDistance: t <= maxDistance when
\* inclusive, t < maxDistance when not.
WithinDistance(t, maxDistance, inclusive) ==
    IF inclusive THEN ~Less(Distance(maxDistance), t)
    ELSE Less(t, Distance(maxDistance))

\* The cells (linear ids) the traversal enters after state s, one advance of
\* the loop body after another, up to the first cell that is invalid or
\* entered at a running distance not within maxDistance.
RECURSIVE CellsEntered(_, _, _, _)
CellsEntered(ray, maxDistance, inclusive, s) ==
    CHOOSE r \in
        { IF \/ ~IsValidIndex(n.idx[1], n.idx[2], n.idx[3])
             \/ ~WithinDistance(n.currentT, maxDistance, inclusive)
          THEN {}
          ELSE {Get1DIndex(n.idx[1], n.idx[2], n.idx[3])}
                   \cup CellsEntered(ray, maxDistance, inclusive, n) :
            n \in { Advance(ray, s) } } : TRUE

\* The start cell of the ray, if it is valid.
StartCells(ray) ==
    LET o == GetCellIndices(ray.position)
    IN IF IsValidIndex(o[1], o[2], o[3]) THEN {Get1DIndex(o[1], o[2], o[3])} ELSE {}

\* The indices stored in a set of cells.
StoredIn(cellIds) == UNION { Range(gridCells[c]) : c \in cellIds }

\* C20 (as claimed): for a non-degenerate direction QueryRay returns the
\* contents of the start cell and of every valid cell entered, before the
\* traversal leaves the grid, at a running distance t <= maxDistance (t equal
\* to maxDistance included), and of no cell entered at t > maxDistance.
C20_RecordsThroughMaxDistance ==
    (op = "QueryRay" /\ ~SquaredLengthBelowThreshold(arg.ray.direction)) =>
        Range(result) =
            StoredIn(StartCells(arg.ray)
                     \cup CellsEntered(arg.ray, arg.maxDistance, TRUE,
                                       RayStart(gridCells, arg.ray)))

\* C20 amended: for a non-degenerate direction QueryRay returns the contents
\* of the start cell and of every valid cell entered, before the traversal
\* leaves the grid, at a running distance t < maxDistance, and of no cell
\* entered at t >= maxDistance.
C20_RecordsBelowMaxDistance ==
    (op = "QueryRay" /\ ~SquaredLengthBelowThreshold(arg.ray.direction)) =>
        Range(result) =
            StoredIn(StartCells(arg.ray)
                     \cup CellsEntered(arg.ray, arg.maxDistance, FALSE,
                                       RayStart(gridCells, arg.ray)))

\* C20 witness: a ray that enters one valid cell below maxDistance and the
\* next valid cell at exactly maxDistance; the result holds the contents of
\* the first and not the object that only the second holds.
C20_Witness ==
    /\ op = "QueryRay"
    /\ ~SquaredLengthBelowThreshold(arg.ray.direction)
    /\ LET start == RayStart(gridCells, arg.ray)
           below == CellsEntered(arg.ray, arg.maxDistance, FALSE, start)
           through == CellsEntered(arg.ray, arg.maxDistance, TRUE, start)
       IN /\ below # {}
          /\ through # below
          /\ StoredIn(below) \subseteq Range(result)
          /\ \E c \in through \ below : \E i \in Range(gridCells[c]) :
                i \notin Range(result)

----------------------------------------------------------------------------
(* The order of the axes on ties (specification SpecRay) *)

\* The axis with the smallest tMax under the other fixed order on ties:
\* x before y before z.
AdvanceAxisXFirst(tMaxX, tMaxY, tMaxZ) ==
    IF ~Less(tMaxY, tMaxX) /\ ~Less(tMaxZ, tMaxX) THEN 1
    ELSE IF ~Less(tMaxZ, tMaxY) THEN 2 ELSE 3

\* The loop body's advance under that order.
AdvanceXFirst(ray, s) ==
    LET k == AdvanceAxisXFirst(s.tMax[1], s.tMax[2], s.tMax[3])
    IN [s EXCEPT !.currentT = s.tMax[k],
                 !.tMax[k] = Plus(s.tMax[k], TDelta(ray, k)),
                 !.idx[k] = s.idx[k] + StepOf(ray.direction[k]),
                 !.steps = s.steps + 1]

\* The loop of QueryRay under that order.
RECURSIVE RayLoopXFirst(_, _, _, _)
RayLoopXFirst(cells, ray, maxDistance, s) ==
    IF ~Less(s.currentT, Distance(maxDistance)) THEN s
    ELSE CHOOSE r \in
        { IF ~Less(n.currentT, Distance(maxDistance)) THEN n
          ELSE IF ~IsValidIndex(n.idx[1], n.idx[2], n.idx[3]) THEN n
          ELSE RayLoopXFirst(cells, ray, maxDistance, Record(cells, n)) :
            n \in { AdvanceXFirst(ray, s) } } : TRUE

\* Two or three axes share the smallest tMax.
TiedTMax(tMax) ==
    \E a, b \in 1..3 :
        /\ a # b
        /\ ~Less(tMax[a], tMax[b]) /\ ~Less(tMax[b], tMax[a])
        /\ \A c \in 1..3 : ~Less(tMax[c], tMax[a])

\* Some iteration of the loop of QueryRay, from state s on, advances on a
\* tie.
RECURSIVE TieOnPath(_, _, _)
TieOnPath(ray, maxDistance, s) ==
    IF ~Less(s.currentT, Distance(maxDistance)) THEN FALSE
    ELSE \/ TiedTMax(s.tMax)
         \/ CHOOSE r \in
              { IF \/ ~Less(n.currentT, Distance(maxDistance))
                   \/ ~IsValidIndex(n.idx[1], n.idx[2], n.idx[3])
                THEN FALSE
                ELSE TieOnPath(ray, maxDistance, n) :
                  n \in { Advance(ray, s) } } : TRUE

\* C21 (as claimed): for a non-degenerate direction QueryRay returns the set
\* of indices that the traversal with the order x before y before z on ties
\* returns.
C21_TieOrderIrrelevant ==
    (op = "QueryRay" /\ ~SquaredLengthBelowThreshold(arg.ray.direction)) =>
        Range(result) =
            RayLoopXFirst(gridCells, arg.ray, arg.maxDistance,
                          RayStart(gridCells, arg.ray)).unique

\* C21 amended: when no iteration of the traversal advances on a tie,
\* QueryRay returns the set of indices that the traversal with the order x
\* before y before z returns.
C21_SameSetWithoutTies ==
    ( /\ op = "QueryRay"
      /\ ~SquaredLengthBelowThreshold(arg.ray.direction)
      /\ ~TieOnPath(arg.ray, arg.maxDistance, RayStart(gridCells, arg.ray)) ) =>
        Range(result) =
            RayLoopXFirst(gridCells, arg.ray, arg.maxDistance,
                          RayStart(gridCells, arg.ray)).unique

\* C21 witness: a traversal without ties that has advanced on all three
\* axes and recorded cells, and returns what the other order returns.
C21_Witness ==
    /\ op = "QueryRay"
    /\ ~SquaredLengthBelowThreshold(arg.ray.direction)
    /\ ~TieOnPath(arg.ray, arg.maxDistance, RayStart(gridCells, arg.ray))
    /\ LET start == RayStart(gridCells, arg.ray)
           end == RayLoop(gridCells, arg.ray, arg.maxDistance, start)
       IN /\ \A k \in 1..3 : end.idx[k] # start.idx[k]
          /\ end.unique # start.unique
          /\ Range(result) =
                RayLoopXFirst(gridCells, arg.ray, arg.maxDistance, start).unique

----------------------------------------------------------------------------
(* The starting cell of QueryRay (specification SpecRay) *)

\* C22: for a non-degenerate direction and any maxDistance the result of
\* QueryRay holds every index stored in the cell GetCellIndices(origin), and
\* for maxDistance <= 0 it holds exactly the indices of that cell.
C22_StartCellAlwaysRecorded ==
    (op = "QueryRay" /\ ~SquaredLengthBelowThreshold(arg.ray.direction)) =>
        LET o == GetCellIndices(arg.ray.position)
            stored == Range(gridCells[Get1DIndex(o[1], o[2], o[3])])
        IN /\ stored \subseteq Range(result)
           /\ arg.maxDistance <= 0 => Range(result) = stored

\* C22 witness: a ray whose origin lies outside the grid, with a negative
\* maxDistance, has returned the two indices of the cell the origin was
\* clamped to.
C22_Witness ==
    /\ op = "QueryRay"
    /\ ~SquaredLengthBelowThreshold(arg.ray.direction)
    /\ arg.maxDistance < 0
    /\ \E k \in 1..3 : \/ arg.ray.position[k] < gridMinBounds[k]
                       \/ arg.ray.position[k] > gridMaxBounds[k]
    /\ LET o == GetCellIndices(arg.ray.position)
       IN /\ Range(result) = Range(gridCells[Get1DIndex(o[1], o[2], o[3])])
          /\ Len(result) = 2

----------------------------------------------------------------------------
(* Specification SpecGuard: Add, Query and QueryRay on a grid as constructed, *)
(* over a small grid and a grid of 2048 x 2048 x 1024 cells                   *)

GuardGeometries ==
    { LifecycleGrid,
      [min |-> <<0, 0, 0>>,
       max |-> <<World(2048), World(2048), World(1024)>>,
       cell |-> <<World(1), World(1), World(1)>>] }

GuardBoxes ==
    { [min |-> <<0, 1, 0>>, max |-> <<0, 1, 0>>],
      [min |-> <<1, 2, 1>>, max |-> <<3, 3, 2>>],
      [min |-> <<-3, 1, 0>>, max |-> <<-1, 1, 0>>] }

GuardPositions == { <<0, 1, 0>>, <<3, 3, 2>>, <<-5, 9, 1>> }

GuardRays ==
    { [position |-> p, direction |-> d] :
        p \in { <<0, 1, 0>>, <<-5, 9, 1>> },
        d \in { <<DirScale, 0, 0>>, <<DirScale \div 2, -DirScale, DirScale>>,
                <<0, 0, 0>> } }

GuardDistances == { 0, 6 }

InitGuard ==
    /\ \E g \in GuardGeometries : NewUniformGrid(g.min, g.max, g.cell)
    /\ instances = <<>>
    /\ builtFrom = <<>>
    /\ result = <<>>
    /\ MainAt("none")

NextGuard ==
    \/ \E b \in GuardBoxes : StoreHasRoom /\ AddStep(0, b)
    \/ \E p \in GuardPositions : QueryStep(p)
    \/ \E ray \in GuardRays, m \in GuardDistances : QueryRayStep(ray, m)

SpecGuard == InitGuard /\ [][NextGuard]_vars

\* A linear cell id passes the "safety check" and lies in [0, totalCells).
IdInRange(cellIndex) ==
    /\ cellIndex >= 0
    /\ cellIndex < GridCellsSize(gridCells)
    /\ cellIndex < totalCells

\* The linear ids Add computes for worldBounds: one for every triple of its
\* loops that passes IsValidIndex.
AddIds(worldBounds) ==
    LET minIndices == GetCellIndices(worldBounds.min)
        maxIndices == GetCellIndices(worldBounds.max)
    IN { Get1DIndex(ix, iy, iz) : ix \in minIndices[1]..maxIndices[1],
                                  iy \in minIndices[2]..maxIndices[2],
                                  iz \in minIndices[3]..maxIndices[3] }

\* The linear ids Query computes for worldPos.
QueryIds(worldPos) ==
    LET centerIndices == GetCellIndices(worldPos)
    IN { Get1DIndex(centerIndices[1] + dx, centerIndices[2] + dy,
                    centerIndices[3] + dz) :
           <<dx, dy, dz>> \in
               { t \in Offsets \X Offsets \X Offsets :
                   IsValidIndex(centerIndices[1] + t[1], centerIndices[2] + t[2],
                                centerIndices[3] + t[3]) } }

\* The linear ids QueryRay computes for the ray and maxDistance.
QueryRayIds(ray, maxDistance) ==
    IF NearZeroLength(ray.direction) THEN QueryIds(ray.position)
    ELSE StartCells(ray)
             \cup CellsEntered(ray, maxDistance, FALSE, RayStart(gridCells, ray))

\* The linear ids the call that has just returned computed.
CallIds ==
    IF op = "Add" THEN AddIds(arg.worldBounds)
    ELSE IF op = "Query" THEN QueryIds(arg)
    ELSE IF op = "QueryRay" THEN QueryRayIds(arg.ray, arg.maxDistance)
    ELSE {}

\* C23 (as claimed): in every call of Add, Query and QueryRay every linear
\* cell id computed by Get1DIndex is in [0, totalCells) and passes the check
\* against gridCells.size(), so no warning branch is reached.
C23_LinearIdsInRange == \A cellIndex \in CallIds : IdInRange(cellIndex)

\* C23 for a grid whose number of cells is within the int range: there every
\* linear id is in range.
C23_LinearIdsInRangeWithinInt ==
    ( /\ ~IntMulOverflows(gridDimX, gridDimY)
      /\ ~IntMulOverflows(gridDimX * gridDimY, gridDimZ) )
    => \A cellIndex \in CallIds : IdInRange(cellIndex)

----------------------------------------------------------------------------
(* Stale indices in the game loop (specification SpecGame) *)

\* C24: in a gameplay frame the asteroid the player bounces off and the
\* asteroid a click hits are in range and active when the frame starts; a
\* bounce begins only with such a collision, only the asteroid hit changes,
\* and an inactive asteroid is left as it is.
C24_InactiveNeverBouncesNorLosesHitPoints ==
    [][ op' = "GameplayFrame" =>
          /\ arg'.collidedWith # -1 =>
                /\ arg'.collidedWith \in 0..(Len(instances) - 1)
                /\ instances[arg'.collidedWith + 1].isActive
          /\ arg'.hit # -1 =>
                /\ arg'.hit \in 0..(Len(instances) - 1)
                /\ instances[arg'.hit + 1].isActive
          /\ (isBouncing' /\ ~isBouncing) => arg'.collidedWith # -1
          /\ DOMAIN instances' = DOMAIN instances
          /\ \A i \in DOMAIN instances :
                /\ ~instances[i].isActive => instances'[i] = instances[i]
                /\ instances'[i] # instances[i] => arg'.hit = i - 1
      ]_vars

\* C24 witness: a gameplay frame has moved the player into the sphere of a
\* destroyed asteroid whose index the grid still returns for that position;
\* the player is not bouncing and the asteroid keeps 0 hit points.
C24_Witness ==
    /\ op = "GameplayFrame" /\ pc = "frame"
    /\ frameCalls # <<>> /\ frameCalls[1].fn = "Query"
    /\ ~isBouncing /\ arg.collidedWith = -1
    /\ \E i \in DOMAIN instances :
          /\ ~instances[i].isActive
          /\ instances[i].hitPoints = 0
          /\ (i - 1) \in Range(Query(gridCells, playerPos))
          /\ CheckCollisionSpheres(playerPos, PlayerRadius, instances[i].position,
                                   instances[i].collisionRadius)

----------------------------------------------------------------------------
(* Specification SpecBroad: Query as the broad phase of a sphere test.  The  *)
(* lifecycle grid is built from one or two objects; the position of the call *)
(* is drawn in the initial state and the one step carries the call out.      *)

BroadVectors ==
    { << Asteroid(k[1], k[2], TRUE) >> : k \in ObjKinds }
    \cup { << Asteroid(<<0, 1, 0>>, 2, FALSE), Asteroid(<<5, 5, 2>>, 2, TRUE) >>,
           << Asteroid(<<5, 5, 2>>, 2, TRUE), Asteroid(<<-4, 1, 2>>, -1, TRUE) >> }

\* Every position of the half-unit lattice in and around the grid.
BroadPositions == (-8..11) \X (-3..10) \X (-4..7)

InitBroad ==
    /\ ConstructedFields(LifecycleGrid.min, LifecycleGrid.max, LifecycleGrid.cell)
    /\ instances \in BroadVectors
    /\ gridCells = BuildInstanced(EmptyCells(totalCells), instances)
    /\ builtFrom = <<instances>>
    /\ op = "call"
    /\ arg \in BroadPositions
    /\ result = <<>>
    /\ MainAt("none")

NextBroad == op = "call" /\ QueryStep(arg)

SpecBroad == InitBroad /\ [][NextBroad]_vars

\* On each axis p lies within one cell size of the interval
\* [position - r, position + r] of the object.
WithinOneCell(p, inst) ==
    \A k \in 1..3 :
        /\ inst.position[k] - inst.collisionRadius - gridCellSize[k] <= p[k]
        /\ p[k] <= inst.position[k] + inst.collisionRadius + gridCellSize[k]

\* The player radii of at most one cell size (on every axis).
PlayerRadii == 0..Min(gridCellSize[1], Min(gridCellSize[2], gridCellSize[3]))

\* C25: after BuildInstanced, Query(p) returns the index of every object
\* active at the build whose interval [position - r, position + r] p is
\* within one cell size of on each axis; so it returns every such object of
\* radius r >= 0 that the sphere test with a player radius of at most one
\* cell size reports.
C25_BroadPhaseMissesNothing ==
    op = "Query" =>
        \A i \in 1..Len(builtFrom[1]) :
            builtFrom[1][i].isActive =>
                /\ WithinOneCell(arg, builtFrom[1][i]) => (i - 1) \in Range(result)
                /\ \A radius \in PlayerRadii :
                      ( /\ builtFrom[1][i].collisionRadius >= 0
                        /\ CheckCollisionSpheres(arg, radius, builtFrom[1][i].position,
                                                 builtFrom[1][i].collisionRadius) )
                      => (i - 1) \in Range(result)

\* C25 witness: a Query at a position outside the grid, one full cell size
\* beyond the interval of an active object on the x axis, whose own cell does
\* not hold the object, has returned the object.
C25_Witness ==
    /\ op = "Query"
    /\ arg[1] > gridMaxBounds[1]
    /\ \E i \in 1..Len(builtFrom[1]) :
          /\ builtFrom[1][i].isActive
          /\ WithinOneCell(arg, builtFrom[1][i])
          /\ arg[1] = builtFrom[1][i].position[1] + builtFrom[1][i].collisionRadius
                          + gridCellSize[1]
          /\ (i - 1) \notin Range(gridCells[CellIdOf(arg)])
          /\ (i - 1) \in Range(result)

----------------------------------------------------------------------------
(* Scaling the direction of a ray (specification SpecRay) *)

ScaleFactors == { 2, 3 }

\* The ray with its direction multiplied by k.
Scaled(ray, k) ==
    [position |-> ray.position,
     direction |-> <<k * ray.direction[1], k * ray.direction[2], k * ray.direction[3]>>]

\* The directions the scaling is checked on: k * d has no component above 1
\* in magnitude.
ScalesWithinUnit(d, k) == \A j \in 1..3 : k * Abs(d[j]) <= DirScale

\* d and k * d are on the same side of the thresholds of QueryRay: neither
\* is of near-zero length, and every component is negligible in both or in
\* neither.
SameSideOfThresholds(d, k) ==
    /\ ~NearZeroLength(d)
    /\ ~NearZeroLength(<<k * d[1], k * d[2], k * d[3]>>)
    /\ \A j \in 1..3 : NonNegligible(d[j]) <=> NonNegligible(k * d[j])

\* C26: QueryRay(origin, d, k * m) returns what QueryRay(origin, k * d, m)
\* returns, for every factor k > 0 with d and k * d on the same side of the
\* thresholds (the call of the state is the one with direction d and
\* maxDistance k * m).
C26_DirectionScalesDistance ==
    op = "QueryRay" =>
        \A k \in ScaleFactors :
            ( /\ arg.maxDistance % k = 0
              /\ ScalesWithinUnit(arg.ray.direction, k)
              /\ SameSideOfThresholds(arg.ray.direction, k) )
            => result = QueryRay(gridCells, Scaled(arg.ray, k), arg.maxDistance \div k)

\* The same with the test of the length as the only threshold.
C26_DirectionScalesDistanceAboveLengthThreshold ==
    op = "QueryRay" =>
        \A k \in ScaleFactors :
            ( /\ arg.maxDistance % k = 0
              /\ ScalesWithinUnit(arg.ray.direction, k)
              /\ ~NearZeroLength(arg.ray.direction)
              /\ ~NearZeroLength(Scaled(arg.ray, k).direction) )
            => result = QueryRay(gridCells, Scaled(arg.ray, k), arg.maxDistance \div k)

\* C26 witness: a call with a direction of half the unit length on x and
\* maxDistance 6 has returned what the unit direction returns with
\* maxDistance 3, which is not what the unit direction returns with
\* maxDistance 6.
C26_Witness ==
    /\ op = "QueryRay"
    /\ arg.maxDistance = 6
    /\ Abs(arg.ray.direction[1]) = DirScale \div 2
    /\ ScalesWithinUnit(arg.ray.direction, 2)
    /\ SameSideOfThresholds(arg.ray.direction, 2)
    /\ result = QueryRay(gridCells, Scaled(arg.ray, 2), 3)
    /\ result # QueryRay(gridCells, Scaled(arg.ray, 2), 6)

----------------------------------------------------------------------------
(* The order of returned lists: indices added in any order, then queried *)

OrderIndices == { 0, 1, 2 }

OrderBoxes ==
    { [min |-> <<0, 1, 0>>, max |-> <<0, 1, 0>>],
      [min |-> <<4, 1, 0>>, max |-> <<4, 1, 0>>],
      [min |-> <<0, 1, 0>>, max |-> <<2, 1, 0>>] }

OrderPositions == { <<0, 1, 0>>, <<4, 0, 0>> }

OrderRays ==
    { [position |-> <<4, 1, 0>>, direction |-> <<-DirScale, 0, 0>>],
      [position |-> <<-1, 1, 0>>, direction |-> <<DirScale, 0, 0>>] }

OrderDistances == { 20 }

NextOrder ==
    \/ \E i \in OrderIndices, b \in OrderBoxes : StoreHasRoom /\ AddStep(i, b)
    \/ ClearStep
    \/ \E p \in OrderPositions : QueryStep(p)
    \/ \E ray \in OrderRays, m \in OrderDistances : QueryRayStep(ray, m)

SpecOrder == InitStore /\ [][NextOrder]_vars

\* C27: every list Query and QueryRay return is in strictly ascending order of
\* index, whatever the store holds and in whatever order it was filled or
\* walked.
C27_ResultsStrictlyAscending ==
    op \in {"Query", "QueryRay"} =>
        \A j, k \in 1..Len(result) : j < k => result[j] < result[k]

\* Some occurrence of a in the store is in another cell than some occurrence
\* of b, or ahead of it in the same cell.
StoredAhead(a, b) ==
    \E c, d \in DOMAIN gridCells :
        \E j \in 1..Len(gridCells[c]), k \in 1..Len(gridCells[d]) :
            /\ gridCells[c][j] = a
            /\ gridCells[d][k] = b
            /\ (c = d => j < k)

\* A ray walk returned 0 first and 2 last although the store holds them in
\* one cell only, where 2 was added before 0.
C27_Witness ==
    /\ op = "QueryRay"
    /\ arg.ray.direction[1] < 0
    /\ Len(result) >= 2
    /\ result[1] = 0
    /\ result[Len(result)] = 2
    /\ StoredAhead(2, 0)
    /\ ~StoredAhead(0, 2)

----------------------------------------------------------------------------
(* Hit points of the asteroids *)

\* Every asteroid has 0 to INITIAL_HIT_POINTS hit points and is active
\* exactly when it has some left.
HitPointsInRange(field) ==
    \A i \in DOMAIN field :
        /\ field[i].hitPoints \in 0..INITIAL_HIT_POINTS
        /\ field[i].isActive <=> field[i].hitPoints > 0

\* C28: at every frame boundary every asteroid has 0 <= hitPoints <= 3 and
\* is active exactly when hitPoints > 0; a click hit lowers the hit points
\* of one active asteroid by exactly 1 and leaves the others alone, nothing
\* else changes an asteroid but the loading block of a new game, and an
\* inactive asteroid stays inactive with 0 hit points until then.
C28_HitPointsTrackActivity ==
    /\ HitPointsInRange(instances)
    /\ [][ /\ HitPointsInRange(instances')
           /\ op' = "GameplayFrame" =>
                 /\ DOMAIN instances' = DOMAIN instances
                 /\ \A i \in DOMAIN instances :
                       IF arg'.hit = i - 1
                       THEN /\ instances[i].isActive
                            /\ instances'[i].hitPoints = instances[i].hitPoints - 1
                            /\ instances'[i].position = instances[i].position
                            /\ instances'[i].collisionRadius = instances[i].collisionRadius
                       ELSE instances'[i] = instances[i]
           /\ op' \notin {"GameplayFrame", "LoadStep"} => instances' = instances
           /\ op' # "LoadStep" =>
                 \A i \in DOMAIN instances :
                     ~instances[i].isActive =>
                         /\ i \in DOMAIN instances'
                         /\ ~instances'[i].isActive
                         /\ instances'[i].hitPoints = 0
         ]_vars

\* C28 witness: a click has just taken the last hit point of an asteroid,
\* which is now inactive, while another asteroid has lost one of three.
C28_Witness ==
    /\ op = "GameplayFrame" /\ pc = "frame"
    /\ arg.hit # -1
    /\ instances[arg.hit + 1].hitPoints = 0
    /\ ~instances[arg.hit + 1].isActive
    /\ \E i \in DOMAIN instances :
          instances[i].isActive /\ instances[i].hitPoints = INITIAL_HIT_POINTS - 1

----------------------------------------------------------------------------
(* Specification SpecParticles: the functions of the particle system called *)
(* in any order                                                             *)

EmitCounts == { -1, 0, 1, 2, MAX_PARTICLES, MAX_PARTICLES + 2 }
ParticleLifeTimes == { 1, 2 }

\* What a call of the particle system leaves alone.
ParticleCallFrame ==
    UNCHANGED <<gridVars, gridCells, instances, builtFrom, currentScreen,
                mainMenuSelection, shouldExit, gameInitialized, collisionGrid,
                currentScore, isBouncing, bounceTimer, playerPos, pc, frameCalls>>

InitializeParticlesStep ==
    /\ particles' = InitializeParticles(particles)
    /\ nextParticleIndex' = 0
    /\ op' = "InitializeParticles"
    /\ arg' = <<>>
    /\ result' = <<>>
    /\ ParticleCallFrame

\* result is the sequence of slots the call wrote.
EmitParticlesStep(count, lifeTimes) ==
    /\ \E s \in { EmitParticles(particles, nextParticleIndex, count, lifeTimes) } :
          /\ particles' = s.particles
          /\ nextParticleIndex' = s.nextParticleIndex
          /\ result' = s.written
    /\ op' = "EmitParticles"
    /\ arg' = [count |-> count, lifeTimes |-> lifeTimes]
    /\ ParticleCallFrame

UpdateParticlesStep(deltaTime) ==
    /\ particles' = UpdateParticles(particles, deltaTime)
    /\ op' = "UpdateParticles"
    /\ arg' = deltaTime
    /\ result' = <<>>
    /\ UNCHANGED nextParticleIndex
    /\ ParticleCallFrame

InitParticles ==
    /\ Constructed(LifecycleGrid.min, LifecycleGrid.max, LifecycleGrid.cell)
    /\ instances = <<>>
    /\ builtFrom = <<>>
    /\ op = "particle_system"
    /\ arg = <<>>
    /\ result = <<>>
    /\ MainAt("none")

NextParticles ==
    \/ InitializeParticlesStep
    \/ \E count \in EmitCounts :
          \E lifeTimes \in [1..Max(count, 0) -> ParticleLifeTimes] :
             EmitParticlesStep(count, lifeTimes)
    \/ \E deltaTime \in DeltaTimes : UpdateParticlesStep(deltaTime)

SpecParticles == InitParticles /\ [][NextParticles]_vars

\* The slots of the pool.
Slots == 0..(MAX_PARTICLES - 1)

\* C30: after any sequence of InitializeParticles, EmitParticles and
\* UpdateParticles calls nextParticleIndex is a slot of the pool, and
\* EmitParticles(count) writes max(count, 0) slots, all inside the pool, in
\* ring order from nextParticleIndex with slot 0 following the last slot; a
\* slot written more than once keeps its last write, the slots not written
\* are left alone, and nextParticleIndex ends one past the last slot
\* written.
C30_EmitWritesRingInsidePool ==
    /\ nextParticleIndex \in Slots
    /\ [][ /\ nextParticleIndex' \in Slots
           /\ DOMAIN particles' = 1..MAX_PARTICLES
           /\ op' = "EmitParticles" =>
                 LET n == Max(arg'.count, 0)
                     written == result'
                 IN /\ Len(written) = n
                    /\ \A j \in 1..n :
                          /\ written[j] \in Slots
                          /\ written[j] = (nextParticleIndex + j - 1) % MAX_PARTICLES
                    /\ nextParticleIndex' = (nextParticleIndex + n) % MAX_PARTICLES
                    /\ \A k \in Slots :
                          LET writes == { j \in 1..n : written[j] = k }
                          IN IF writes = {} THEN particles'[k + 1] = particles[k + 1]
                             ELSE particles'[k + 1] =
                                    [isActive |-> TRUE,
                                     lifeTime |-> arg'.lifeTimes[
                                        CHOOSE j \in writes : \A i \in writes : i <= j]]
         ]_vars

\* C30 witness: a call with a count above the pool size started in the
\* middle of the pool, wrote through its last slot into slot 0, and wrote
\* the slot it began with a second time.
C30_Witness ==
    /\ op = "EmitParticles"
    /\ arg.count > MAX_PARTICLES
    /\ result[1] \notin {0, MAX_PARTICLES - 1}
    /\ \E j \in 1..(Len(result) - 1) :
          result[j] = MAX_PARTICLES - 1 /\ result[j + 1] = 0
    /\ \E j \in 2..Len(result) : result[j] = result[1]
    /\ nextParticleIndex \in Slots

----------------------------------------------------------------------------
(* The state a new game starts with *)

\* The step of the loading block that makes the screen GAMEPLAY.
GameStarts == currentScreen = "LOADING" /\ currentScreen' = "GAMEPLAY"

\* The score is 0, no particle is active, every asteroid is active with
\* INITIAL_HIT_POINTS hit points, and the grid is built from the asteroids.
FreshSession ==
    /\ currentScore = 0
    /\ \A k \in DOMAIN particles : ~particles[k].isActive
    /\ \A i \in DOMAIN instances :
          instances[i].isActive /\ instances[i].hitPoints = INITIAL_HIT_POINTS
    /\ instances = SessionField
    /\ OnSessionGrid

\* C29: whenever a new game starts (the LOADING to GAMEPLAY transition) the
\* score is 0, no particle is active, every asteroid is active with 3 hit
\* points, the grid is built from the new asteroids, and the player is not
\* bouncing.
C29_NewGameIsFresh ==
    [][ GameStarts => (FreshSession' /\ ~isBouncing') ]_vars

\* Whenever a new game starts the score is 0, no particle is active, every
\* asteroid is active with 3 hit points and the grid is built from the new
\* asteroids; the bounce state is what the previous session left.
C29_NewGameIsFreshButForBounce ==
    [][ GameStarts => (FreshSession' /\ UNCHANGED <<isBouncing, bounceTimer>>) ]_vars

====
